---- MODULE Spec2Model ----
(***************************************************************************)
(* Model of the gdrive-mcp document tools (src/src/server.ts): the remote   *)
(* document as the Docs service presents it, the range locators, the tab    *)
(* resolver, the batch coordinator and the tool handlers that use them.     *)
(***************************************************************************)
EXTENDS Integers, Sequences, FiniteSets, TLC

VARIABLES
    probe,      \* one call of a pure helper (inputs and result), or the state of
                \* the server process, of a comment tool or of uninstall
    remote,     \* the document held by the Docs service
    drive,      \* the files the tools have created in Drive
    inv,        \* the tool invocations: arguments, position, calls made, result
    started     \* the number of invocations started

vars == <<probe, remote, drive, inv, started>>

mainVars == <<remote, drive, inv, started>>

\* The specifications of the pure functions make no tool call.
NoInvocations == remote = <<>> /\ drive = <<>> /\ inv = <<>> /\ started = 0

(***************************************************************************)
(* Bounds of the model.                                                     *)
(***************************************************************************)
MaxParaLen == 4
MaxElems == 1
MaxQueryLen == 2
MaxCalls == 2

None == "None"
\* A locator result is a range or NotFound.
NotFound == [found |-> FALSE, startIndex |-> 0, endIndex |-> 0]

Range(s, e) == [found |-> TRUE, startIndex |-> s, endIndex |-> e]

(***************************************************************************)
(* The document body as the service stores it: one token per index.  A     *)
(* token is a character or a structural marker that occupies one index:     *)
(* section break, table start, row start, cell start, table end.  sty is    *)
(* the character style (1 = bold) of each index; a text run is a maximal    *)
(* stretch of one style inside a paragraph.  Index i of the document is     *)
(* toks[i]; index 0 is the body's leading section break.                    *)
(***************************************************************************)
Markers == {"<S>", "<T>", "<R>", "<C>", "<E>"}

IsChar(t) == t \notin Markers

\* F(v), with v evaluated once.
Let(v, F(_)) == CHOOSE y \in {F(x) : x \in {v}} : TRUE

MkBody(toks, sty) == [toks |-> toks, sty |-> sty]

BodyLen(body) == Len(body.toks)

\* The index of the newline that ends the paragraph starting at i, 0 if the
\* tokens from i on do not form a paragraph.
ParaEndAt(body, i) ==
    LET ends == {j \in i..BodyLen(body) :
                    /\ body.toks[j] = "\n"
                    /\ \A k \in i..(j - 1) : IsChar(body.toks[k]) /\ body.toks[k] # "\n"}
    IN IF ends = {} THEN 0 ELSE CHOOSE j \in ends : TRUE

\* The last index of the text run that starts at i in a paragraph ending at e.
RunEnd(body, i, e) ==
    CHOOSE j \in i..e :
        /\ \A k \in i..j : body.sty[k] = body.sty[i]
        /\ (j = e \/ body.sty[j + 1] # body.sty[i])

RECURSIVE RunsFrom(_, _, _)
RunsFrom(body, i, e) ==
    IF i > e THEN <<>>
    ELSE LET j == RunEnd(body, i, e)
         IN <<[startIndex |-> i, endIndex |-> j + 1,
               textRun |-> [content |-> SubSeq(body.toks, i, j),
                            bold |-> body.sty[i] = 1]]>>
            \o RunsFrom(body, j + 1, e)

Paragraph(body, i, e) ==
    [kind |-> "paragraph", startIndex |-> i, endIndex |-> e + 1,
     elements |-> RunsFrom(body, i, e), tableRows |-> <<>>]

SectionBreak(i) ==
    [kind |-> "sectionBreak", startIndex |-> i, endIndex |-> i + 1,
     elements |-> <<>>, tableRows |-> <<>>]

\* The paragraphs of one table cell, from index i.
RECURSIVE ParseCellContent(_, _)
ParseCellContent(body, i) ==
    IF i > BodyLen(body) \/ ~IsChar(body.toks[i]) \/ ParaEndAt(body, i) = 0
    THEN [content |-> <<>>, next |-> i]
    ELSE LET e == ParaEndAt(body, i)
             rest == ParseCellContent(body, e + 1)
         IN [content |-> <<Paragraph(body, i, e)>> \o rest.content, next |-> rest.next]

RECURSIVE ParseCells(_, _)
ParseCells(body, i) ==
    IF i > BodyLen(body) \/ body.toks[i] # "<C>"
    THEN [cells |-> <<>>, next |-> i]
    ELSE Let(ParseCellContent(body, i + 1), LAMBDA c :
         LET rest == ParseCells(body, c.next)
         IN [cells |-> <<[startIndex |-> i, endIndex |-> c.next, content |-> c.content]>>
                       \o rest.cells,
             next |-> rest.next])

RECURSIVE ParseRows(_, _)
ParseRows(body, i) ==
    IF i > BodyLen(body) \/ body.toks[i] # "<R>"
    THEN [rows |-> <<>>, next |-> i]
    ELSE Let(ParseCells(body, i + 1), LAMBDA r :
         LET rest == ParseRows(body, r.next)
         IN [rows |-> <<[startIndex |-> i, endIndex |-> r.next, tableCells |-> r.cells]>>
                      \o rest.rows,
             next |-> rest.next])

\* The body's content elements from index i, as documents.get returns them.
RECURSIVE ParseContent(_, _)
ParseContent(body, i) ==
    IF i > BodyLen(body) THEN [content |-> <<>>, next |-> i]
    ELSE LET t == body.toks[i] IN
         IF IsChar(t) THEN
             LET e == ParaEndAt(body, i) IN
             IF e = 0 THEN [content |-> <<>>, next |-> i]
             ELSE LET rest == ParseContent(body, e + 1)
                  IN [content |-> <<Paragraph(body, i, e)>> \o rest.content,
                      next |-> rest.next]
         ELSE IF t = "<S>" THEN
             LET rest == ParseContent(body, i + 1)
             IN [content |-> <<SectionBreak(i)>> \o rest.content, next |-> rest.next]
         ELSE IF t = "<T>" THEN
             Let(ParseRows(body, i + 1), LAMBDA tb :
             IF tb.next > BodyLen(body) \/ body.toks[tb.next] # "<E>"
             THEN [content |-> <<>>, next |-> i]
             ELSE LET rest == ParseContent(body, tb.next + 1)
                  IN [content |-> <<[kind |-> "table", startIndex |-> i,
                                     endIndex |-> tb.next + 1, elements |-> <<>>,
                                     tableRows |-> tb.rows]>> \o rest.content,
                      next |-> rest.next])
         ELSE [content |-> <<>>, next |-> i]

\* body.content of a documents.get response: the leading section break at
\* index 0, then the elements of the tokens.
BodyContent(body) == <<SectionBreak(0)>> \o ParseContent(body, 1).content

\* The service keeps every body well formed: the tokens parse to the end,
\* the body ends with a paragraph, every row has a cell and every cell a
\* paragraph.
WellFormed(body) ==
    \A b \in {body} :
    /\ Len(b.sty) = Len(b.toks)
    /\ BodyLen(b) >= 1
    /\ b.toks[BodyLen(b)] = "\n"
    /\ \A parsed \in {ParseContent(b, 1)} :
       /\ parsed.next = BodyLen(b) + 1
       /\ \A c \in {<<SectionBreak(0)>> \o parsed.content} :
            /\ c[Len(c)].kind = "paragraph"
            /\ \A n \in 1..Len(c) :
                 c[n].kind = "table" =>
                    /\ c[n].tableRows # <<>>
                    /\ \A r \in 1..Len(c[n].tableRows) :
                         /\ c[n].tableRows[r].tableCells # <<>>
                         /\ \A k \in 1..Len(c[n].tableRows[r].tableCells) :
                              c[n].tableRows[r].tableCells[k].content # <<>>

(***************************************************************************)
(* Document Model Adapter: the flattened view of a body.  Every text run    *)
(* with its absolute range, in document order, table cells in row-major     *)
(* order; a section break is a marker without text.  A run carries the      *)
(* range of its paragraph and whether the paragraph sits in a table cell.   *)
(***************************************************************************)
RunItems(para, inTable) ==
    [n \in 1..Len(para.elements) |->
        [kind |-> "run", text |-> para.elements[n].textRun.content,
         startIndex |-> para.elements[n].startIndex,
         endIndex |-> para.elements[n].endIndex,
         paraStart |-> para.startIndex, paraEnd |-> para.endIndex,
         inTable |-> inTable]]

RECURSIVE FlattenCellContent(_)
FlattenCellContent(content) ==
    IF content = <<>> THEN <<>>
    ELSE RunItems(Head(content), TRUE) \o FlattenCellContent(Tail(content))

RECURSIVE FlattenCells(_)
FlattenCells(cells) ==
    IF cells = <<>> THEN <<>>
    ELSE FlattenCellContent(Head(cells).content) \o FlattenCells(Tail(cells))

RECURSIVE FlattenRows(_)
FlattenRows(rows) ==
    IF rows = <<>> THEN <<>>
    ELSE FlattenCells(Head(rows).tableCells) \o FlattenRows(Tail(rows))

RECURSIVE flatten(_)
flatten(content) ==
    IF content = <<>> THEN <<>>
    ELSE LET el == Head(content) IN
         (CASE el.kind = "paragraph" -> RunItems(el, FALSE)
            [] el.kind = "table" -> FlattenRows(el.tableRows)
            [] OTHER -> <<[kind |-> "sectionBreak", text |-> <<>>,
                           startIndex |-> el.startIndex, endIndex |-> el.endIndex,
                           paraStart |-> 0, paraEnd |-> 0, inTable |-> FALSE]>>)
         \o flatten(Tail(content))

(***************************************************************************)
(* Text Range Locator.                                                      *)
(***************************************************************************)
NoChar == "<none>"

\* The character the flattened sequence holds at absolute offset o.
CharAt(flat, o) ==
    LET hit == {n \in 1..Len(flat) :
                   flat[n].kind = "run" /\ flat[n].startIndex <= o /\ o < flat[n].endIndex}
    IN IF hit = {} THEN NoChar
       ELSE LET n == CHOOSE m \in hit : TRUE
            IN flat[n].text[o - flat[n].startIndex + 1]

Lower(c) == IF c = "H" THEN "h" ELSE c

CharMatchesIgnoringCase(c, d) == Lower(c) = Lower(d)

\* Matching is case-sensitive and literal.
CharMatches(c, d) == c = d

MatchAt(flat, q, o) == \A i \in 1..Len(q) : CharMatches(CharAt(flat, o + i - 1), q[i])

FlatEnd(flat) == IF flat = <<>> THEN 0 ELSE flat[Len(flat)].endIndex

NextSearchStartOverlapping(o, q) == o + 1

\* Matches do not overlap: the scan resumes after the match.
NextSearchStart(o, q) == o + Len(q)

RECURSIVE ScanFrom(_, _, _, _)
ScanFrom(flat, q, k, o) ==
    IF o + Len(q) > FlatEnd(flat) THEN NotFound
    ELSE IF MatchAt(flat, q, o)
         THEN IF k = 1 THEN Range(o, o + Len(q))
              ELSE ScanFrom(flat, q, k - 1, NextSearchStart(o, q))
         ELSE ScanFrom(flat, q, k, o + 1)

\* A locator that searches every run on its own.
RECURSIVE ScanRuns(_, _, _, _, _)
ScanRuns(flat, q, k, n, o) ==
    IF n > Len(flat) THEN NotFound
    ELSE IF flat[n].kind # "run" \/ o + Len(q) > flat[n].endIndex
         THEN ScanRuns(flat, q, k, n + 1,
                       IF n + 1 <= Len(flat) THEN flat[n + 1].startIndex ELSE 0)
         ELSE IF MatchAt(flat, q, o)
              THEN IF k = 1 THEN Range(o, o + Len(q))
                   ELSE ScanRuns(flat, q, k - 1, n, o + Len(q))
              ELSE ScanRuns(flat, q, k, n, o + 1)

findTextRangePerRun(flat, q, k) ==
    IF flat = <<>> THEN NotFound ELSE ScanRuns(flat, q, k, 1, flat[1].startIndex)

\* findTextRange(flatSequence, query, instance) -> Range | NotFound
findTextRange(flat, q, k) == ScanFrom(flat, q, k, 0)

\* offset lies in the paragraph's [startIndex, endIndex).
ParagraphContains(item, offset) == item.paraStart <= offset /\ offset < item.paraEnd

getParagraphRangeAnyParagraph(flat, offset) ==
    LET hit == {n \in 1..Len(flat) :
                   flat[n].kind = "run" /\ ParagraphContains(flat[n], offset)}
    IN IF hit = {} THEN NotFound
       ELSE LET n == CHOOSE m \in hit : \A x \in hit : m <= x
            IN Range(flat[n].paraStart, flat[n].paraEnd)

\* getParagraphRange(flatSequence, offset) -> Range | NotFound: the body's
\* own paragraphs only, not those of table cells.
getParagraphRange(flat, offset) ==
    LET hit == {n \in 1..Len(flat) :
                   /\ flat[n].kind = "run"
                   /\ ~flat[n].inTable
                   /\ ParagraphContains(flat[n], offset)}
    IN IF hit = {} THEN NotFound
       ELSE LET n == CHOOSE m \in hit : \A x \in hit : m <= x
            IN Range(flat[n].paraStart, flat[n].paraEnd)

(***************************************************************************)
(* Inputs of the locator checks: bodies of up to MaxElems elements and a    *)
(* closing paragraph, in one of two style patterns, and the document of     *)
(* Scenario A.                                                              *)
(***************************************************************************)
SeqsUpTo(S, lo, hi) == UNION {[1..n -> S] : n \in lo..hi}

ParaToks ==
    {[i \in 1..n |-> "a"] \o <<"\n">> : n \in 0..MaxParaLen}
    \cup {<<"a", "b", "a", "\n">>}

TableToks ==
    {<<"<T>", "<R>", "<C>">> \o p1 \o <<"<C>">> \o p2 \o <<"<E>">> :
        p1 \in {<<"a", "\n">>, <<"a", "b", "\n">>}, p2 \in {<<"a", "\n">>}}

ElementToks == {<<"\n">>, <<"a", "\n">>, <<"b", "\n">>} \cup TableToks \cup {<<"<S>">>}

RECURSIVE Concat(_)
Concat(seqs) == IF seqs = <<>> THEN <<>> ELSE Head(seqs) \o Concat(Tail(seqs))

BodyToks == {Concat(es) \o p : es \in SeqsUpTo(ElementToks, 0, MaxElems), p \in ParaToks}

StylePatterns == {"plain", "alternating"}

StyleOf(pattern, n) == [i \in 1..n |-> IF pattern = "alternating" THEN i % 2 ELSE 0]

Bodies == {MkBody(t, StyleOf(p, Len(t))) : t \in BodyToks, p \in StylePatterns}

Queries == SeqsUpTo({"a", "\n"}, 1, MaxQueryLen)

ScenarioAToks ==
    <<"H", "e", "l", "l", "o", " ", "w", "o", "r", "l", "d", ",", " ",
      "h", "e", "l", "l", "o", " ", "a", "g", "a", "i", "n", ".", "\n">>

ScenarioABody == MkBody(ScenarioAToks, StyleOf("plain", Len(ScenarioAToks)))

ScenarioAQueries == {<<"h", "e", "l", "l", "o">>, <<"H", "e", "l", "l", "o">>}

NoProbe == [fn |-> "none", body |-> MkBody(<<>>, <<>>), query |-> <<>>, offset |-> 0,
            done |-> FALSE, out |-> <<>>]

FindProbes ==
    {[fn |-> "findTextRange", body |-> b, query |-> q, offset |-> 0,
      done |-> FALSE, out |-> <<>>] : b \in Bodies, q \in Queries}
    \cup
    {[fn |-> "findTextRange", body |-> ScenarioABody, query |-> q, offset |-> 0,
      done |-> FALSE, out |-> <<>>] : q \in ScenarioAQueries}

ParagraphProbes ==
    UNION {{[fn |-> "getParagraphRange", body |-> b, query |-> <<>>, offset |-> o,
             done |-> FALSE, out |-> <<>>] : o \in 0..(BodyLen(b) + 1)} : b \in Bodies}

FlatOf(body) == flatten(BodyContent(body))

\* One call of findTextRange per instance 1..length+1 on the flattened body.
ApplyFindTextRange ==
    /\ probe.fn = "findTextRange"
    /\ ~probe.done
    /\ probe' = [probe EXCEPT
                   !.done = TRUE,
                   !.out = [k \in 1..(BodyLen(probe.body) + 1) |->
                               findTextRange(FlatOf(probe.body), probe.query, k)]]
    /\ UNCHANGED mainVars

ApplyGetParagraphRange ==
    /\ probe.fn = "getParagraphRange"
    /\ ~probe.done
    /\ probe' = [probe EXCEPT
                   !.done = TRUE,
                   !.out = <<getParagraphRange(FlatOf(probe.body), probe.offset)>>]
    /\ UNCHANGED mainVars

LocatorInit == probe \in FindProbes \cup ParagraphProbes /\ NoInvocations

LocatorNext == ApplyFindTextRange \/ ApplyGetParagraphRange

SpecLocator == LocatorInit /\ [][LocatorNext]_vars

(***************************************************************************)
(* Properties of the Text Range Locator.                                    *)
(***************************************************************************)
FindDone == probe.fn = "findTextRange" /\ probe.done

ParagraphDone == probe.fn = "getParagraphRange" /\ probe.done

\* The indexes at which the query occurs in the document's text.
Occurrences(body, q) ==
    {o \in 1..BodyLen(body) :
        /\ o + Len(q) - 1 <= BodyLen(body)
        /\ SubSeq(body.toks, o, o + Len(q) - 1) = q}

\* The most occurrences of the query that can be chosen without overlap.
MaxDisjoint(body, q) ==
    LET occ == Occurrences(body, q)
        disjoint == {S \in SUBSET occ :
                        \A x \in S, y \in S : x < y => x + Len(q) <= y}
    IN CHOOSE n \in 0..Cardinality(occ) :
          /\ \E S \in disjoint : Cardinality(S) = n
          /\ \A S \in disjoint : Cardinality(S) <= n

\* out[1..N] are N matches of the query in ascending order without overlap,
\* and every later instance is NotFound.
NthMatches(N) ==
    /\ \A k \in 1..N :
         /\ probe.out[k].found
         /\ probe.out[k].endIndex = probe.out[k].startIndex + Len(probe.query)
         /\ probe.out[k].startIndex >= 1
         /\ probe.out[k].endIndex - 1 <= BodyLen(probe.body)
         /\ SubSeq(probe.body.toks, probe.out[k].startIndex, probe.out[k].endIndex - 1)
              = probe.query
    /\ \A k \in 1..(N - 1) :
         /\ probe.out[k].startIndex < probe.out[k + 1].startIndex
         /\ probe.out[k].endIndex <= probe.out[k + 1].startIndex
    /\ \A k \in (N + 1)..Len(probe.out) : probe.out[k] = NotFound

OwnParagraphsAt(body, offset) ==
    {n \in 1..Len(BodyContent(body)) :
        /\ BodyContent(body)[n].kind = "paragraph"
        /\ BodyContent(body)[n].startIndex <= offset
        /\ offset < BodyContent(body)[n].endIndex}

InsideTable(body, offset) ==
    \E n \in 1..Len(BodyContent(body)) :
        /\ BodyContent(body)[n].kind = "table"
        /\ BodyContent(body)[n].startIndex <= offset
        /\ offset < BodyContent(body)[n].endIndex

\* C8: for an offset inside a paragraph's declared range getParagraphRange
\* returns exactly that paragraph's [startIndex, endIndex); for an offset
\* inside a table cell or outside every paragraph it returns NotFound.
C8_ParagraphContainment ==
    ParagraphDone =>
        /\ \A n \in OwnParagraphsAt(probe.body, probe.offset) :
              probe.out[1] = Range(BodyContent(probe.body)[n].startIndex,
                                   BodyContent(probe.body)[n].endIndex)
        /\ OwnParagraphsAt(probe.body, probe.offset) = {} => probe.out[1] = NotFound
        /\ InsideTable(probe.body, probe.offset) => probe.out[1] = NotFound

C8_Witness ==
    /\ ParagraphDone
    /\ InsideTable(probe.body, probe.offset)
    /\ IsChar(probe.body.toks[probe.offset])
    /\ probe.out[1] = NotFound

Min(S) == CHOOSE x \in S : \A y \in S : x <= y

RECURSIVE JoinedText(_)
JoinedText(flat) == IF flat = <<>> THEN <<>> ELSE Head(flat).text \o JoinedText(Tail(flat))

\* A query found in the joined run text only across a cell boundary or a
\* section break is not matched.
C9_SpanningNotMatched ==
    /\ FindDone
    /\ \E o \in 1..Len(JoinedText(FlatOf(probe.body))) :
          /\ o + Len(probe.query) - 1 <= Len(JoinedText(FlatOf(probe.body)))
          /\ SubSeq(JoinedText(FlatOf(probe.body)), o, o + Len(probe.query) - 1)
               = probe.query
    /\ Occurrences(probe.body, probe.query) = {}
    /\ probe.out[1] = NotFound

ScenarioAHello == FindDone /\ probe.body = ScenarioABody /\ probe.query = <<"h", "e", "l", "l", "o">>

\* C10 as stated: in "Hello world, hello again." findTextRange(_, "hello", 2)
\* matches a literal lowercase "hello".
C10_SecondInstanceMatches ==
    ScenarioAHello =>
        /\ probe.out[2].found
        /\ SubSeq(probe.body.toks, probe.out[2].startIndex, probe.out[2].endIndex - 1)
             = probe.query

\* C10 amended: matching is case-sensitive and literal: instance 1 of "hello"
\* is the lowercase occurrence at [14, 19), "Hello" at index 1 is skipped, and
\* instance 2 is NotFound.
C10_CaseSensitiveLiteral ==
    ScenarioAHello =>
        /\ probe.out[1] = Range(14, 19)
        /\ probe.out[2] = NotFound

C10_Witness == ScenarioAHello /\ probe.out[1].found /\ probe.out[1].startIndex > 1

(***************************************************************************)
(* Tabs.  A document's tabs form a forest: tab i has parent par[i] (0 for   *)
(* a top-level tab), an identifier, and a documentTab with a body unless    *)
(* it is a non-document tab.  A legacy document has no tabs, only a body.   *)
(***************************************************************************)
MaxTabs == 3

TabIdOf(i) == <<"t", i>>

RECURSIVE SortedSeq(_)
SortedSeq(S) == IF S = {} THEN <<>> ELSE <<Min(S)>> \o SortedSeq(S \ {Min(S)})

ChildrenOf(i, par) == SortedSeq({j \in DOMAIN par : par[j] = i})

\* The tab as documents.get returns it, with its childTabs nested.
RECURSIVE TabNode(_, _, _, _)
TabNode(i, par, hasDoc, bodyOf) ==
    [tabId |-> TabIdOf(i),
     hasDocumentTab |-> hasDoc[i],
     body |-> bodyOf[i],
     childTabs |-> [k \in 1..Len(ChildrenOf(i, par)) |->
                       TabNode(ChildrenOf(i, par)[k], par, hasDoc, bodyOf)]]

\* document.tabs: the top-level tabs in order.
DocTabs(par, hasDoc, bodyOf) ==
    [k \in 1..Len(ChildrenOf(0, par)) |->
        TabNode(ChildrenOf(0, par)[k], par, hasDoc, bodyOf)]

EmptyBody == MkBody(<<"\n">>, <<0>>)

\* No tab (null).
NoTab ==
    [found |-> FALSE,
     tab |-> [tabId |-> <<>>, hasDocumentTab |-> FALSE, body |-> EmptyBody, childTabs |-> <<>>]]

FindInTopLevelTabs(tabs, tabId) ==
    LET hit == {k \in 1..Len(tabs) : tabs[k].tabId = tabId}
    IN IF hit = {} THEN NoTab ELSE [found |-> TRUE, tab |-> tabs[Min(hit)]]

\* Depth-first search through childTabs for the first exact identifier match.
RECURSIVE FindInTabs(_, _)
FindInTabs(tabs, tabId) ==
    IF tabs = <<>> THEN NoTab
    ELSE IF Head(tabs).tabId = tabId THEN [found |-> TRUE, tab |-> Head(tabs)]
    ELSE LET below == FindInTabs(Head(tabs).childTabs, tabId)
         IN IF below.found THEN below ELSE FindInTabs(Tail(tabs), tabId)

\* findTabById(document, tabId) -> Tab | null
findTabById(doc, tabId) == FindInTabs(doc.tabs, tabId)

ParentVectors(n) == {par \in [1..n -> 0..n] : \A i \in 1..n : par[i] < i}

TabProbes ==
    UNION {{[fn |-> "findTabById", n |-> n, par |-> par, hasDoc |-> hd,
             tabId |-> TabIdOf(t), done |-> FALSE, out |-> NoTab] :
               par \in ParentVectors(n), hd \in [1..n -> BOOLEAN], t \in 1..(n + 1)} :
           n \in 0..MaxTabs}

ProbeDoc ==
    [body |-> EmptyBody,
     tabs |-> DocTabs(probe.par, probe.hasDoc, [i \in 1..probe.n |-> EmptyBody])]

ApplyFindTabById ==
    /\ probe.fn = "findTabById"
    /\ ~probe.done
    /\ probe' = [probe EXCEPT !.done = TRUE, !.out = findTabById(ProbeDoc, probe.tabId)]
    /\ UNCHANGED mainVars

TabsInit == probe \in TabProbes /\ NoInvocations

TabsNext == ApplyFindTabById

SpecTabs == TabsInit /\ [][TabsNext]_vars

TabsDone == probe.fn = "findTabById" /\ probe.done

NoTabId == <<>>

MainPar == <<0, 1, 0>>

MainHasDoc == <<TRUE, TRUE, FALSE>>

RemoteTabs(r) ==
    IF r.legacy THEN <<>> ELSE DocTabs(MainPar, MainHasDoc, r.bodies)

\* tabs(tabProperties,documentTab): the top-level tabs without childTabs.
WithoutChildTabs(tabs) == [k \in 1..Len(tabs) |-> [tabs[k] EXCEPT !.childTabs = <<>>]]

\* body(content(endIndex)): every element with its endIndex only.
OnlyEndIndex(content) ==
    [n \in 1..Len(content) |->
        [kind |-> "masked", startIndex |-> 0, endIndex |-> content[n].endIndex,
         elements |-> <<>>, tableRows |-> <<>>]]

\* body(content(paragraph(elements(textRun(content))))): the paragraphs'
\* run texts only; other elements come back empty.
OnlyRunText(content) ==
    [n \in 1..Len(content) |->
        IF content[n].kind = "paragraph"
        THEN [kind |-> "paragraph", startIndex |-> 0, endIndex |-> 0,
              elements |-> [m \in 1..Len(content[n].elements) |->
                               [startIndex |-> 0, endIndex |-> 0,
                                textRun |-> [content |-> content[n].elements[m].textRun.content,
                                             bold |-> FALSE]]],
              tableRows |-> <<>>]
        ELSE [kind |-> "masked", startIndex |-> 0, endIndex |-> 0,
              elements |-> <<>>, tableRows |-> <<>>]]

\* documents.get(documentId, includeTabsContent, fields): with
\* includeTabsContent the content is in tabs and body is empty, without it
\* body is the first tab's body and tabs is absent.
FieldsOfContent(fields, content) ==
    CASE fields = "*" -> content
      [] fields = "body(content(paragraph(elements(textRun(content)))))" -> OnlyRunText(content)
      [] fields = "body(content(endIndex)),documentStyle(pageSize)" -> OnlyEndIndex(content)
      [] OTHER -> <<>>

FieldsOfTabs(fields, tabs) ==
    CASE fields \in {"*", "tabs"} -> tabs
      [] fields = "tabs(tabProperties,documentTab)" -> WithoutChildTabs(tabs)
      [] OTHER -> <<>>

DocumentsGet(r, includeTabsContent, fields) ==
    [content |-> FieldsOfContent(fields, IF includeTabsContent THEN <<>>
                                         ELSE BodyContent(r.bodies[1])),
     tabs |-> FieldsOfTabs(fields, IF includeTabsContent THEN RemoteTabs(r) ELSE <<>>)]

\* The tab a request addresses: the first tab when its location carries no
\* tabId, 0 when the tabId names no document tab.
TargetTab(r, tabId) ==
    IF tabId = NoTabId THEN 1
    ELSE IF r.legacy THEN 0
    ELSE LET hit == {i \in 1..Len(MainPar) : TabIdOf(i) = tabId /\ MainHasDoc[i]}
         IN IF hit = {} THEN 0 ELSE Min(hit)

InsertAt(body, p, toks) ==
    MkBody(SubSeq(body.toks, 1, p - 1) \o toks \o SubSeq(body.toks, p, BodyLen(body)),
           SubSeq(body.sty, 1, p - 1)
             \o [i \in 1..Len(toks) |-> IF p > 1 THEN body.sty[p - 1] ELSE body.sty[1]]
             \o SubSeq(body.sty, p, BodyLen(body)))

DeleteRangeOf(body, s, e) ==
    MkBody(SubSeq(body.toks, 1, s - 1) \o SubSeq(body.toks, e, BodyLen(body)),
           SubSeq(body.sty, 1, s - 1) \o SubSeq(body.sty, e, BodyLen(body)))

\* replaceAllText with matchCase false: every occurrence of the search text,
\* whatever its case, becomes the replacement, left to right.
RECURSIVE ReplaceAllFrom(_, _, _, _)
ReplaceAllFrom(body, o, search, text) ==
    IF o > BodyLen(body) THEN MkBody(<<>>, <<>>)
    ELSE IF /\ o + Len(search) - 1 <= BodyLen(body)
            /\ \A k \in 1..Len(search) :
                  CharMatchesIgnoringCase(body.toks[o + k - 1], search[k])
         THEN Let(ReplaceAllFrom(body, o + Len(search), search, text), LAMBDA rest :
                  MkBody(text \o rest.toks,
                         [k \in 1..Len(text) |-> body.sty[o]] \o rest.sty))
         ELSE Let(ReplaceAllFrom(body, o + 1, search, text), LAMBDA rest :
                  MkBody(<<body.toks[o]>> \o rest.toks, <<body.sty[o]>> \o rest.sty))

SetBold(body, s, e, b) ==
    MkBody(body.toks, [i \in 1..BodyLen(body) |-> IF s <= i /\ i < e THEN b ELSE body.sty[i]])

RequestEffect(body, req) ==
    CASE req.op = "insertText" -> InsertAt(body, req.index, req.text)
      [] req.op = "insertInlineImage" -> InsertAt(body, req.index, <<"<I>">>)
      [] req.op = "deleteContentRange" -> DeleteRangeOf(body, req.index, req.endIndex)
      [] req.op = "updateTextStyle" ->
           IF "bold" \in req.fields THEN SetBold(body, req.index, req.endIndex, req.bold)
           ELSE body
      [] req.op = "replaceAllText" -> ReplaceAllFrom(body, 1, req.containsText, req.text)
      [] OTHER -> body

\* Whether the service accepts the request on this body: the indices lie in
\* the body and the result is a well-formed body.
RequestValid(body, req) ==
    /\ CASE req.op \in {"insertText", "insertInlineImage"} ->
              1 <= req.index /\ req.index <= BodyLen(body)
         [] req.op = "deleteContentRange" ->
              1 <= req.index /\ req.index < req.endIndex /\ req.endIndex <= BodyLen(body)
         [] req.op = "replaceAllText" -> req.containsText # <<>>
         [] OTHER ->
              1 <= req.index /\ req.index < req.endIndex /\ req.endIndex <= BodyLen(body) + 1
    /\ WellFormed(RequestEffect(body, req))

\* The service applies the requests of one batch in the order given, each
\* to the document the requests before it produced; the first request it
\* rejects voids the whole batch.
RECURSIVE ApplyRequests(_, _)
ApplyRequests(r, reqs) ==
    IF reqs = <<>> THEN [ok |-> TRUE, remote |-> r]
    ELSE LET req == Head(reqs)
             t == TargetTab(r, req.tabId)
         IN IF t = 0 \/ ~RequestValid(r.bodies[t], req)
            THEN [ok |-> FALSE, remote |-> r]
            ELSE ApplyRequests(
                   [r EXCEPT !.bodies[t] = RequestEffect(r.bodies[t], req)],
                   Tail(reqs))

\* documents.batchUpdate: all or nothing, one new revision.
BatchUpdate(r, reqs) ==
    Let(ApplyRequests(r, reqs), LAMBDA res :
        IF res.ok
        THEN [ok |-> TRUE, remote |-> [res.remote EXCEPT !.revision = r.revision + 1]]
        ELSE [ok |-> FALSE, remote |-> r])

\* A tab lookup that takes any tab for a document tab.
ResolveTabUnchecked(doc, tabId) ==
    [ok |-> TRUE, kind |-> "none", tab |-> FindInTabs(doc.tabs, tabId).tab]

(***************************************************************************)
(* Style intents.  An intent is a sparse object: each attribute holds a     *)
(* value (a non-empty sequence of characters) or is undefined.              *)
(***************************************************************************)
Undefined == <<>>

TextAttrs ==
    <<"bold", "italic", "underline", "strikethrough", "fontSize", "fontFamily",
      "foregroundColor", "backgroundColor", "linkUrl">>

ParagraphAttrs == <<"alignment", "namedStyleType", "spacing">>

StyleAttrs ==
    {TextAttrs[k] : k \in 1..Len(TextAttrs)} \cup {ParagraphAttrs[k] : k \in 1..Len(ParagraphAttrs)}

\* The object with the attributes of the record r and no other.
Intent(r) == [a \in StyleAttrs |-> IF a \in DOMAIN r THEN r[a] ELSE Undefined]

\* {}
NoAttributes == [a \in StyleAttrs |-> Undefined]

HexDigits ==
    {"0", "1", "2", "3", "4", "5", "6", "7", "8", "9",
     "A", "B", "C", "D", "E", "F", "a", "b", "c", "d", "e", "f"}

\* [0-9A-Fa-f]{n} from position from on: the position after it, 0 for no match.
HexRun(color, from, n) ==
    IF from + n - 1 <= Len(color) /\ \A k \in from..(from + n - 1) : color[k] \in HexDigits
    THEN from + n
    ELSE 0

\* /^#([0-9A-Fa-f]{3}|[0-9A-Fa-f]{6})$/
HexColorTestHashRequired(color) ==
    /\ color # <<>>
    /\ color[1] = "#"
    /\ \E n \in {3, 6} : HexRun(color, 2, n) = Len(color) + 1

\* /^#?([0-9A-Fa-f]{3}|[0-9A-Fa-f]{6})$/.test(color)
HexColorTest(color) ==
    \E start \in {1} \cup (IF color # <<>> /\ color[1] = "#" THEN {2} ELSE {}) :
    \E n \in {3, 6} :
       HexRun(color, start, n) = Len(color) + 1

\* z.string().url(): the two addresses the model uses.
GoodUrl == <<"h", "t", "t", "p", "s", ":", "/", "/", "a", ".", "b">>

BadUrl == <<"a", " ", "b">>

IsUrl(url) == url = GoodUrl

\* The style parameters of a text-style tool: the colours are hex colours,
\* the link is a URL.
TextStyleAccepts(style) ==
    /\ style["foregroundColor"] # Undefined => HexColorTest(style["foregroundColor"])
    /\ style["backgroundColor"] # Undefined => HexColorTest(style["backgroundColor"])
    /\ style["linkUrl"] # Undefined => IsUrl(style["linkUrl"])

\* The builder with a truthiness test: if (style.x) fieldsToUpdate.push('x').
RECURSIVE FieldsToUpdateTruthy(_, _)
FieldsToUpdateTruthy(style, attrs) ==
    IF attrs = <<>> THEN {}
    ELSE (IF style[Head(attrs)] \notin {Undefined, <<"false">>} THEN {Head(attrs)} ELSE {})
         \cup FieldsToUpdateTruthy(style, Tail(attrs))

\* The attributes of attrs that the style defines, as the builder collects
\* them: if (style.x !== undefined) fieldsToUpdate.push('x').
RECURSIVE FieldsToUpdate(_, _)
FieldsToUpdate(style, attrs) ==
    IF attrs = <<>> THEN {}
    ELSE (IF style[Head(attrs)] # Undefined THEN {Head(attrs)} ELSE {})
         \cup FieldsToUpdate(style, Tail(attrs))

(***************************************************************************)
(* Tool invocations.  An invocation runs its handler from "begin" to        *)
(* "done"; every remote call is one step, taken when the service answers,   *)
(* together with the handler's code up to its next remote call.             *)
(***************************************************************************)
Slots == {1, 2}

Codes == {200, 403, 404, 500}

MAX_BATCH_SIZE == 50

Idle ==
    [tool |-> "none", pc |-> "idle", tabId |-> NoTabId, index |-> 0, endIndex |-> 0,
     text |-> <<>>, flag |-> FALSE, target |-> "none", instance |-> 0, style |-> NoAttributes,
     range |-> NotFound, requests |-> <<>>, log |-> <<>>,
     outcome |-> "none", kind |-> "none", code |-> 0, result |-> <<>>,
     before |-> [legacy |-> FALSE, bodies |-> <<>>, revision |-> 0], filesBefore |-> 0,
     file |-> 0]

Call(api, code, includeTabsContent) ==
    [api |-> api, code |-> code, includeTabsContent |-> includeTabsContent]

Logged(i, api, code) == Append(inv[i].log, Call(api, code, FALSE))

\* docs.documents.get({documentId, includeTabsContent, fields})
LoggedGet(i, code, includeTabsContent) ==
    Append(inv[i].log, Call("documents.get", code, includeTabsContent))

\* The handler throws: the invocation ends with an error of this kind.
Throw(rec, kind, code) ==
    [rec EXCEPT !.pc = "done", !.outcome = "error", !.kind = kind, !.code = code]

\* The handler returns a result of this kind.
Return(rec, kind) == [rec EXCEPT !.pc = "done", !.outcome = "ok", !.kind = kind]

\* catch (error): a UserError is rethrown, anything else is wrapped into
\* "Failed to ...: <message>".
CatchWrap(rec, err) ==
    IF err.user THEN Throw(rec, err.kind, err.code)
    ELSE Throw(rec, "Failed", err.code)

ApiError(code) == [user |-> FALSE, kind |-> "ApiError", code |-> code]

\* executeBatchUpdate's domain errors: not-found, permission, anything else.
DomainError(code) ==
    [user |-> TRUE,
     kind |-> IF code = 404 THEN "DocumentNotFound"
              ELSE IF code = 403 THEN "PermissionDenied"
              ELSE "RemoteOperationFailed",
     code |-> code]

\* executeBatchUpdate(docs, documentId, requests): one batchUpdate call for
\* the whole list, refused locally when the list is too large.
executeBatchUpdate(r, reqs, code) ==
    IF Len(reqs) > MAX_BATCH_SIZE
    THEN [called |-> FALSE, submitted |-> <<>>, ok |-> FALSE, remote |-> r,
          error |-> [user |-> TRUE, kind |-> "BatchTooLarge", code |-> 0], code |-> 0]
    ELSE IF code # 200
    THEN [called |-> TRUE, submitted |-> reqs, ok |-> FALSE, remote |-> r,
          error |-> DomainError(code), code |-> code]
    ELSE Let(BatchUpdate(r, reqs), LAMBDA b :
            IF b.ok
            THEN [called |-> TRUE, submitted |-> reqs, ok |-> TRUE, remote |-> b.remote,
                  error |-> DomainError(200), code |-> 200]
            ELSE [called |-> TRUE, submitted |-> reqs, ok |-> FALSE, remote |-> r,
                  error |-> DomainError(400), code |-> 400])

Request(op, tabId, index, endIndex, text, fields) ==
    [op |-> op, tabId |-> tabId, index |-> index, endIndex |-> endIndex,
     text |-> text, fields |-> fields, bold |-> 1, containsText |-> <<>>]

\* The tab lookup of the handlers that take a tabId:
\*   if (!targetTab) throw "Tab ... not found";
\*   if (!targetTab.documentTab) throw "Tab ... does not have content".
ResolveTab(doc, tabId) ==
    LET t == findTabById(doc, tabId)
    IN IF ~t.found THEN [ok |-> FALSE, kind |-> "TabNotFound", tab |-> t.tab]
       ELSE IF ~t.tab.hasDocumentTab
            THEN [ok |-> FALSE, kind |-> "TabHasNoContent", tab |-> t.tab]
            ELSE [ok |-> TRUE, kind |-> "none", tab |-> t.tab]

\* A submission that the service refuses when the document has moved on
\* since the invocation began.
SubmitStepRevisionChecked(i, tool, okKind) ==
    /\ inv[i].tool = tool
    /\ inv[i].pc = "submit"
    /\ \E code \in Codes :
       \E res \in {IF code = 200 /\ remote.revision # inv[i].before.revision
                   THEN [called |-> TRUE, ok |-> FALSE, remote |-> remote,
                         error |-> DomainError(400), code |-> 400]
                   ELSE executeBatchUpdate(remote, inv[i].requests, code)} :
       \E logged \in {IF res.called
                      THEN [inv[i] EXCEPT !.log = Logged(i, "documents.batchUpdate", res.code)]
                      ELSE inv[i]} :
          /\ remote' = res.remote
          /\ inv' = [inv EXCEPT ![i] = IF res.ok THEN Return(logged, okKind)
                                       ELSE CatchWrap(logged, res.error)]
    /\ UNCHANGED <<probe, drive, started>>

\* await GDocsHelpers.executeBatchUpdate(docs, documentId, requests) and the
\* handler's return or catch after it.
SubmitStep(i, tool, okKind) ==
    /\ inv[i].tool = tool
    /\ inv[i].pc = "submit"
    /\ \E code \in Codes :
       \E res \in {executeBatchUpdate(remote, inv[i].requests, code)} :
       \E logged \in {IF res.called
                      THEN [inv[i] EXCEPT !.log = Logged(i, "documents.batchUpdate", res.code)]
                      ELSE inv[i]} :
          /\ remote' = res.remote
          /\ inv' = [inv EXCEPT ![i] = IF res.ok THEN Return(logged, okKind)
                                       ELSE CatchWrap(logged, res.error)]
    /\ UNCHANGED <<probe, drive, started>>

(***************************************************************************)
(* The tool calls the model makes.                                          *)
(***************************************************************************)
Bold == Intent([bold |-> <<"true">>])

Centered == Intent([alignment |-> <<"CENTER">>])

\* Styles with a colour or a link: "#FFF", "FFFF", a good and a bad address.
GoodColor == Intent([foregroundColor |-> <<"#", "F", "F", "F">>])

BadColor == Intent([bold |-> <<"true">>, backgroundColor |-> <<"F", "F", "F", "F">>])

BadLink == Intent([bold |-> <<"true">>, linkUrl |-> BadUrl])

TabArgs == {NoTabId} \cup {TabIdOf(t) : t \in 1..(Len(MainPar) + 1)}

Args(tool, tabId, index, endIndex, text, flag, target, instance, style) ==
    [Idle EXCEPT !.tool = tool, !.tabId = tabId, !.index = index, !.endIndex = endIndex,
                 !.text = text, !.flag = flag, !.target = target, !.instance = instance,
                 !.style = style]

ReadCalls ==
    {Args("readGoogleDoc", t, 0, 0, <<>>, FALSE, "none", 0, NoAttributes) : t \in TabArgs}

AppendCalls ==
    {Args("appendToGoogleDoc", t, 0, 0, <<"x">>, f, "none", 0, NoAttributes) :
        t \in TabArgs, f \in BOOLEAN}

InsertCalls ==
    {Args("insertText", t, x, 0, <<"x">>, FALSE, "none", 0, NoAttributes) :
        t \in TabArgs, x \in {1, 2}}
    \cup {Args("insertText", NoTabId, 0, 0, <<"x">>, FALSE, "none", 0, NoAttributes)}

DeleteCalls ==
    {Args("deleteRange", t, r[1], r[2], <<>>, FALSE, "none", 0, NoAttributes) :
        t \in TabArgs, r \in {<<1, 2>>, <<2, 2>>}}

TextStyleCalls ==
    {Args("applyTextStyle", NoTabId, 0, 0, <<"a">>, FALSE, "text", k, st) :
        k \in {2, 4}, st \in {Bold, NoAttributes}}
    \cup
    {Args("applyTextStyle", NoTabId, r[1], r[2], <<>>, FALSE, "range", 0, Bold) :
        r \in {<<1, 3>>, <<3, 3>>}}
    \cup
    {Args("applyTextStyle", NoTabId, 0, 0, <<"a">>, FALSE, "text", 2, st) :
        st \in {GoodColor, BadColor, BadLink}}

FormatCalls ==
    {Args("formatMatchingText", NoTabId, 0, 0, <<"a">>, FALSE, "text", k, st) :
        k \in {1, 4}, st \in {Bold, NoAttributes}}
    \cup
    {Args("formatMatchingText", NoTabId, 0, 0, <<"a">>, FALSE, "text", 1, st) :
        st \in {BadColor, BadLink}}

ParagraphStyleCalls ==
    {Args("applyParagraphStyle", NoTabId, 0, 0, <<"a">>, FALSE, "text", k, st) :
        k \in {0, 2, 4}, st \in {Centered, NoAttributes}}
    \cup
    {Args("applyParagraphStyle", NoTabId, x, 0, <<>>, FALSE, "index", 0, Centered) :
        x \in {7, 10}}
    \cup
    {Args("applyParagraphStyle", NoTabId, r[1], r[2], <<>>, FALSE, "range", 0, Centered) :
        r \in {<<1, 3>>, <<3, 2>>}}

ImageCalls ==
    {Args("insertLocalImage", NoTabId, x, 0, <<>>, f, "none", 0, NoAttributes) :
        x \in {1, 20}, f \in BOOLEAN}

\* flag: initialContent is given.
CreateCalls ==
    {Args("createDocument", NoTabId, 0, 0, IF f THEN <<"x">> ELSE <<>>, f, "none", 0, NoAttributes) :
        f \in BOOLEAN}

\* text: the replacements, the <<searchText, replaceText>> pairs in the order of
\* Object.entries.
TemplateCalls ==
    {Args("createFromTemplate", NoTabId, 0, 0, r, FALSE, "none", 0, NoAttributes) :
        r \in {<<>>, <<<<"a", "h">>, <<"h", "c">>>>,
               [k \in 1..(MAX_BATCH_SIZE + 1) |-> <<"a", "a">>]}}

\* flag: includeContent.
ListTabsCalls ==
    {Args("listDocumentTabs", NoTabId, 0, 0, <<>>, f, "none", 0, NoAttributes) :
        f \in BOOLEAN}

\* index: tableStartIndex; text: textContent or textQuery.
StubCalls ==
    {Args(tool, NoTabId, x, 0, t, FALSE, "none", 0, st) :
        tool \in {"editTableCell", "findElement"}, x \in {0, 1, 4}, t \in {<<>>, <<"a">>},
        st \in {NoAttributes, Bold}}

ToolCalls ==
    ReadCalls \cup AppendCalls \cup InsertCalls \cup DeleteCalls \cup TextStyleCalls
    \cup FormatCalls \cup ParagraphStyleCalls \cup ImageCalls \cup CreateCalls
    \cup TemplateCalls \cup ListTabsCalls \cup StubCalls

\* A schema that accepts whatever it is given.
SchemaAcceptsAll(call) == TRUE

\* The parameter schema of the tool (zod), checked before execute runs: the
\* indices are min(1), deleteRange refines endIndex > startIndex,
\* formatMatchingText checks its colours and its link and refines "at least
\* one formatting option must be provided".
SchemaAccepts(call) ==
    /\ call.tool = "deleteRange" => call.index >= 1 /\ call.endIndex > call.index
    /\ call.tool \in {"insertText", "insertLocalImage", "editTableCell"} => call.index >= 1
    /\ call.tool = "formatMatchingText" =>
          /\ FieldsToUpdate(call.style, TextAttrs) # {}
          /\ TextStyleAccepts(call.style)
    /\ call.tool = "applyTextStyle" => TextStyleAccepts(call.style)

\* The text of a body as readGoogleDoc collects it: the runs of the
\* paragraphs and of the paragraphs in table cells.
RECURSIVE RunText(_)
RunText(elements) ==
    IF elements = <<>> THEN <<>>
    ELSE Head(elements).textRun.content \o RunText(Tail(elements))

RECURSIVE CellContentText(_)
CellContentText(content) ==
    IF content = <<>> THEN <<>>
    ELSE RunText(Head(content).elements) \o CellContentText(Tail(content))

RECURSIVE CellsText(_)
CellsText(cells) ==
    IF cells = <<>> THEN <<>>
    ELSE CellContentText(Head(cells).content) \o CellsText(Tail(cells))

RECURSIVE RowsText(_)
RowsText(rows) ==
    IF rows = <<>> THEN <<>>
    ELSE CellsText(Head(rows).tableCells) \o RowsText(Tail(rows))

RECURSIVE TextContent(_)
TextContent(content) ==
    IF content = <<>> THEN <<>>
    ELSE RunText(Head(content).elements) \o RowsText(Head(content).tableRows)
         \o TextContent(Tail(content))

\* !textContent.trim()
IsBlank(text) == \A k \in 1..Len(text) : text[k] \in {"\n", " "}

\* A tool is invoked: the parameters are checked against the schema, then
\* execute starts.
InvokeCall(i, calls) ==
    /\ inv[i].pc \in {"idle", "done"}
    /\ started < MaxCalls
    /\ \E call \in calls :
          inv' = [inv EXCEPT ![i] =
                    IF SchemaAccepts(call)
                    THEN [call EXCEPT !.pc = "begin", !.outcome = "running",
                                      !.before = remote, !.filesBefore = Len(drive)]
                    ELSE Throw([call EXCEPT !.before = remote, !.filesBefore = Len(drive)],
                               "InvalidParams", 0)]
    /\ started' = started + 1
    /\ UNCHANGED <<probe, remote, drive>>

Invoke(i) == InvokeCall(i, ToolCalls)

\* readGoogleDoc: documents.get, the tab lookup, the text of the content.
ReadGoogleDocGet(i) ==
    /\ inv[i].tool = "readGoogleDoc"
    /\ inv[i].pc = "begin"
    /\ \E code \in Codes :
       \E needsTabsContent \in {inv[i].tabId # NoTabId} :
       \E rec \in {[inv[i] EXCEPT !.log = LoggedGet(i, code, needsTabsContent)]} :
       \E res \in {DocumentsGet(remote, needsTabsContent,
                                IF needsTabsContent THEN "*"
                                ELSE "body(content(paragraph(elements(textRun(content)))))")} :
       \E tab \in {ResolveTab(res, inv[i].tabId)} :
       \E contentSource \in {IF needsTabsContent THEN BodyContent(tab.tab.body)
                             ELSE res.content} :
       \E textContent \in {TextContent(contentSource)} :
          inv' = [inv EXCEPT ![i] =
                IF code = 404 THEN Throw(rec, "DocNotFound", code)
                ELSE IF code = 403 THEN Throw(rec, "PermissionDenied", code)
                ELSE IF code # 200 THEN Throw(rec, "Failed", code)
                ELSE IF needsTabsContent /\ ~tab.ok THEN Throw(rec, tab.kind, 0)
                ELSE IF IsBlank(textContent) THEN Return(rec, "empty")
                ELSE [Return(rec, "content") EXCEPT !.result = textContent]]
    /\ UNCHANGED <<probe, remote, drive, started>>

\* listDocumentTabs: documents.get with the tabs, the list of the tabs.
ListDocumentTabsGet(i) ==
    /\ inv[i].tool = "listDocumentTabs"
    /\ inv[i].pc = "begin"
    /\ \E code \in Codes :
       \E rec \in {[inv[i] EXCEPT !.log = LoggedGet(i, code, TRUE)]} :
          inv' = [inv EXCEPT ![i] =
                IF code = 404 THEN Throw(rec, "DocNotFound", code)
                ELSE IF code = 403 THEN Throw(rec, "PermissionDenied", code)
                ELSE IF code # 200 THEN Throw(rec, "Failed", code)
                ELSE Return(rec, "listed")]
    /\ UNCHANGED <<probe, remote, drive, started>>

\* A stub that reports its request as submitted.
StubSubmitted(rec) == Return(rec, "submitted")

\* throw new NotImplementedError(...)
StubResult(rec) == Throw(rec, "NotImplemented", 0)

\* editTableCell and findElement: the handler throws at once.
EditTableCell(i) ==
    /\ inv[i].tool = "editTableCell"
    /\ inv[i].pc = "begin"
    /\ inv' = [inv EXCEPT ![i] = StubResult(inv[i])]
    /\ UNCHANGED <<probe, remote, drive, started>>

FindElement(i) ==
    /\ inv[i].tool = "findElement"
    /\ inv[i].pc = "begin"
    /\ inv' = [inv EXCEPT ![i] = StubResult(inv[i])]
    /\ UNCHANGED <<probe, remote, drive, started>>

AppendRequestWithoutTab(tabId, endIndex, textToInsert) ==
    Request("insertText", NoTabId, endIndex, 0, textToInsert, {})

\* const location: any = { index: endIndex };
\* if (args.tabId) location.tabId = args.tabId;
\* request = { insertText: { location, text: textToInsert } }
AppendRequest(tabId, endIndex, textToInsert) ==
    Request("insertText", tabId, endIndex, 0, textToInsert, {})

\* let endIndex = 1;
\* if (bodyContent) { const lastElement = bodyContent[bodyContent.length - 1];
\*                    if (lastElement?.endIndex) endIndex = lastElement.endIndex - 1; }
AppendEndIndex(bodyContent) ==
    IF bodyContent # <<>> /\ bodyContent[Len(bodyContent)].endIndex # 0
    THEN bodyContent[Len(bodyContent)].endIndex - 1
    ELSE 1

\* (args.addNewlineIfNeeded && endIndex > 1 ? '\n' : '') + args.textToAppend
AppendText(addNewlineIfNeeded, endIndex, textToAppend) ==
    (IF addNewlineIfNeeded /\ endIndex > 1 THEN <<"\n">> ELSE <<>>) \o textToAppend

\* appendToGoogleDoc: documents.get, the tab lookup, the end index and the
\* insertText request.
AppendGet(i) ==
    /\ inv[i].tool = "appendToGoogleDoc"
    /\ inv[i].pc = "begin"
    /\ \E code \in Codes :
       \E needsTabsContent \in {inv[i].tabId # NoTabId} :
       \E rec \in {[inv[i] EXCEPT !.log = LoggedGet(i, code, needsTabsContent)]} :
       \E docInfo \in {DocumentsGet(remote, needsTabsContent,
                                    IF needsTabsContent THEN "tabs"
                                    ELSE "body(content(endIndex)),documentStyle(pageSize)")} :
       \E tab \in {ResolveTab(docInfo, inv[i].tabId)} :
       \E bodyContent \in {IF needsTabsContent THEN BodyContent(tab.tab.body)
                           ELSE docInfo.content} :
       \E endIndex \in {AppendEndIndex(bodyContent)} :
       \E textToInsert \in {AppendText(inv[i].flag, endIndex, inv[i].text)} :
          inv' = [inv EXCEPT ![i] =
                IF code # 200 THEN CatchWrap(rec, ApiError(code))
                ELSE IF needsTabsContent /\ ~tab.ok THEN Throw(rec, tab.kind, 0)
                ELSE IF textToInsert = <<>> THEN Return(rec, "nothing")
                ELSE [rec EXCEPT !.pc = "submit",
                                 !.requests = <<AppendRequest(inv[i].tabId, endIndex,
                                                              textToInsert)>>]]
    /\ UNCHANGED <<probe, remote, drive, started>>

AppendSubmit(i) == SubmitStep(i, "appendToGoogleDoc", "appended")

\* location: { index: args.index, tabId: args.tabId }
InsertTextRequest(tabId, index, text) == Request("insertText", tabId, index, 0, text, {})

\* insertText with a tabId: the tab is looked up first.
InsertTextGet(i) ==
    /\ inv[i].tool = "insertText"
    /\ inv[i].pc = "begin"
    /\ inv[i].tabId # NoTabId
    /\ \E code \in Codes :
       \E rec \in {[inv[i] EXCEPT !.log = LoggedGet(i, code, TRUE)]} :
       \E docInfo \in {DocumentsGet(remote, TRUE, "tabs(tabProperties,documentTab)")} :
       \E tab \in {ResolveTab(docInfo, inv[i].tabId)} :
          inv' = [inv EXCEPT ![i] =
                IF code # 200 THEN CatchWrap(rec, ApiError(code))
                ELSE IF ~tab.ok THEN Throw(rec, tab.kind, 0)
                ELSE [rec EXCEPT !.pc = "submit",
                                 !.requests = <<InsertTextRequest(inv[i].tabId, inv[i].index,
                                                                  inv[i].text)>>]]
    /\ UNCHANGED <<probe, remote, drive, started>>

\* The request of GDocsHelpers.insertText(docs, documentId, text, index),
\* which takes no tab.
HelperInsertText(text, index) == Request("insertText", NoTabId, index, 0, text, {})

\* insertText without a tabId: GDocsHelpers.insertText.
InsertTextHelper(i) ==
    /\ inv[i].tool = "insertText"
    /\ inv[i].pc = "begin"
    /\ inv[i].tabId = NoTabId
    /\ inv' = [inv EXCEPT ![i] =
                 [inv[i] EXCEPT !.pc = "submit",
                                !.requests = <<HelperInsertText(inv[i].text, inv[i].index)>>]]
    /\ UNCHANGED <<probe, remote, drive, started>>

InsertTextSubmit(i) == SubmitStep(i, "insertText", "inserted")

DeleteRangeRequestFirstTab(tabId, startIndex, endIndex) ==
    Request("deleteContentRange", IF tabId = NoTabId THEN TabIdOf(1) ELSE tabId,
            startIndex, endIndex, <<>>, {})

\* const range: any = { startIndex, endIndex };
\* if (args.tabId) range.tabId = args.tabId;
DeleteRangeRequest(tabId, startIndex, endIndex) ==
    Request("deleteContentRange", tabId, startIndex, endIndex, <<>>, {})

\* deleteRange: the range check, then the tab lookup when a tabId is given.
DeleteRangeCheck(i) ==
    /\ inv[i].tool = "deleteRange"
    /\ inv[i].pc = "begin"
    /\ inv' = [inv EXCEPT ![i] =
                 IF inv[i].endIndex <= inv[i].index THEN Throw(inv[i], "InvalidRange", 0)
                 ELSE IF inv[i].tabId # NoTabId THEN [inv[i] EXCEPT !.pc = "get"]
                 ELSE [inv[i] EXCEPT !.pc = "submit",
                                     !.requests = <<DeleteRangeRequest(inv[i].tabId, inv[i].index,
                                                                       inv[i].endIndex)>>]]
    /\ UNCHANGED <<probe, remote, drive, started>>

DeleteRangeGet(i) ==
    /\ inv[i].tool = "deleteRange"
    /\ inv[i].pc = "get"
    /\ \E code \in Codes :
       \E rec \in {[inv[i] EXCEPT !.log = LoggedGet(i, code, TRUE)]} :
       \E docInfo \in {DocumentsGet(remote, TRUE, "tabs(tabProperties,documentTab)")} :
       \E tab \in {ResolveTab(docInfo, inv[i].tabId)} :
          inv' = [inv EXCEPT ![i] =
                IF code # 200 THEN CatchWrap(rec, ApiError(code))
                ELSE IF ~tab.ok THEN Throw(rec, tab.kind, 0)
                ELSE [rec EXCEPT !.pc = "submit",
                                 !.requests = <<DeleteRangeRequest(inv[i].tabId, inv[i].index,
                                                                   inv[i].endIndex)>>]]
    /\ UNCHANGED <<probe, remote, drive, started>>

DeleteRangeSubmit(i) == SubmitStep(i, "deleteRange", "deleted")

\* buildUpdateTextStyleRequest / buildUpdateParagraphStyleRequest: one
\* request whose fields are the attributes of the style, null (op "none")
\* when the style has none.
StyleRequest(op, startIndex, endIndex, style, fieldsToUpdate) ==
    IF fieldsToUpdate = {} THEN Request("none", NoTabId, 0, 0, <<>>, {})
    ELSE [Request(op, NoTabId, startIndex, endIndex, <<>>, fieldsToUpdate)
            EXCEPT !.bold = IF style["bold"] = <<"true">> THEN 1 ELSE 0]

buildUpdateTextStyleRequest(startIndex, endIndex, style) ==
    StyleRequest("updateTextStyle", startIndex, endIndex, style,
                 FieldsToUpdate(style, TextAttrs))

buildUpdateParagraphStyleRequest(startIndex, endIndex, style) ==
    StyleRequest("updateParagraphStyle", startIndex, endIndex, style,
                 FieldsToUpdate(style, ParagraphAttrs))

\* The handler without its check of the builder's result.
BuildStyleNoNullCheck(rec, startIndex, endIndex, requestInfo, checked) ==
    IF checked /\ endIndex <= startIndex THEN Throw(rec, "InvalidRange", 0)
    ELSE [rec EXCEPT !.pc = "submit", !.range = Range(startIndex, endIndex),
                     !.requests = <<requestInfo>>]

\* The handler from its range check on: the range, the request, the return
\* when there is nothing to apply.
BuildStyle(rec, startIndex, endIndex, requestInfo, checked) ==
    IF checked /\ endIndex <= startIndex THEN Throw(rec, "InvalidRange", 0)
    ELSE IF requestInfo.op = "none" THEN Return(rec, "NoStyle")
    ELSE [rec EXCEPT !.pc = "submit", !.range = Range(startIndex, endIndex),
                     !.requests = <<requestInfo>>]

\* A helper's documents.get fails: the error it throws reaches the handler's
\* catch either as it came or as a domain error.
HelperErrors(code) == {ApiError(code), DomainError(code)}

\* applyTextStyle on found text: GDocsHelpers.findTextRange reads the
\* document and searches its body.
ApplyTextStyleFind(i) ==
    /\ inv[i].tool = "applyTextStyle"
    /\ inv[i].pc = "begin"
    /\ inv[i].target = "text"
    /\ \E code \in Codes :
       \E err \in HelperErrors(code) :
       \E rec \in {[inv[i] EXCEPT !.log = Logged(i, "documents.get", code)]} :
       \E range \in {findTextRange(FlatOf(remote.bodies[1]), inv[i].text, inv[i].instance)} :
          inv' = [inv EXCEPT ![i] =
                IF code # 200 THEN CatchWrap(rec, err)
                ELSE IF ~range.found THEN Throw(rec, "TextNotFound", 0)
                ELSE BuildStyle(rec, range.startIndex, range.endIndex,
                                buildUpdateTextStyleRequest(range.startIndex, range.endIndex,
                                                            inv[i].style), TRUE)]
    /\ UNCHANGED <<probe, remote, drive, started>>

\* applyTextStyle on an explicit range.
ApplyTextStyleRange(i) ==
    /\ inv[i].tool = "applyTextStyle"
    /\ inv[i].pc = "begin"
    /\ inv[i].target = "range"
    /\ inv' = [inv EXCEPT ![i] =
                 BuildStyle(inv[i], inv[i].index, inv[i].endIndex,
                            buildUpdateTextStyleRequest(inv[i].index, inv[i].endIndex,
                                                        inv[i].style), TRUE)]
    /\ UNCHANGED <<probe, remote, drive, started>>

ApplyTextStyleSubmit(i) == SubmitStep(i, "applyTextStyle", "styled")

\* formatMatchingText: findTextRange, the request, no range check.
FormatMatchingTextFind(i) ==
    /\ inv[i].tool = "formatMatchingText"
    /\ inv[i].pc = "begin"
    /\ \E code \in Codes :
       \E err \in HelperErrors(code) :
       \E rec \in {[inv[i] EXCEPT !.log = Logged(i, "documents.get", code)]} :
       \E range \in {findTextRange(FlatOf(remote.bodies[1]), inv[i].text, inv[i].instance)} :
          inv' = [inv EXCEPT ![i] =
                IF code # 200 THEN CatchWrap(rec, err)
                ELSE IF ~range.found THEN Throw(rec, "TextNotFound", 0)
                ELSE BuildStyle(rec, range.startIndex, range.endIndex,
                                buildUpdateTextStyleRequest(range.startIndex, range.endIndex,
                                                            inv[i].style), FALSE)]
    /\ UNCHANGED <<probe, remote, drive, started>>

FormatMatchingTextSubmit(i) == SubmitStep(i, "formatMatchingText", "styled")

\* applyParagraphStyle on found text, first read: findTextRange with
\* matchInstance || 1.
ParagraphStyleFind(i) ==
    /\ inv[i].tool = "applyParagraphStyle"
    /\ inv[i].pc = "begin"
    /\ inv[i].target = "text"
    /\ \E code \in Codes :
       \E err \in HelperErrors(code) :
       \E rec \in {[inv[i] EXCEPT !.log = Logged(i, "documents.get", code)]} :
       \E textRange \in {findTextRange(FlatOf(remote.bodies[1]), inv[i].text,
                                       IF inv[i].instance = 0 THEN 1 ELSE inv[i].instance)} :
          inv' = [inv EXCEPT ![i] =
                IF code # 200 THEN CatchWrap(rec, err)
                ELSE IF ~textRange.found THEN Throw(rec, "TextNotFound", 0)
                ELSE [rec EXCEPT !.pc = "paragraph", !.index = textRange.startIndex]]
    /\ UNCHANGED <<probe, remote, drive, started>>

\* applyParagraphStyle on an index: straight to the paragraph lookup.
ParagraphStyleIndex(i) ==
    /\ inv[i].tool = "applyParagraphStyle"
    /\ inv[i].pc = "begin"
    /\ inv[i].target = "index"
    /\ inv' = [inv EXCEPT ![i] = [inv[i] EXCEPT !.pc = "paragraph"]]
    /\ UNCHANGED <<probe, remote, drive, started>>

\* applyParagraphStyle styling the range it was given to look at rather than
\* the paragraph found: the matched text itself, or the one index.
ParagraphStyleLookupMatchRange(i) ==
    /\ inv[i].tool = "applyParagraphStyle"
    /\ inv[i].pc = "paragraph"
    /\ \E code \in Codes :
       \E err \in HelperErrors(code) :
       \E rec \in {[inv[i] EXCEPT !.log = Logged(i, "documents.get", code)]} :
       \E paragraphRange \in {getParagraphRange(FlatOf(remote.bodies[1]), inv[i].index)} :
       \E endIndex \in {inv[i].index + (IF inv[i].target = "text" THEN Len(inv[i].text) ELSE 1)} :
          inv' = [inv EXCEPT ![i] =
                IF code # 200 THEN CatchWrap(rec, err)
                ELSE IF ~paragraphRange.found THEN Throw(rec, "ParagraphNotFound", 0)
                ELSE BuildStyle(rec, inv[i].index, endIndex,
                                buildUpdateParagraphStyleRequest(inv[i].index, endIndex,
                                                                 inv[i].style), TRUE)]
    /\ UNCHANGED <<probe, remote, drive, started>>

\* GDocsHelpers.getParagraphRange reads the document and looks the
\* paragraph up.
ParagraphStyleLookup(i) ==
    /\ inv[i].tool = "applyParagraphStyle"
    /\ inv[i].pc = "paragraph"
    /\ \E code \in Codes :
       \E err \in HelperErrors(code) :
       \E rec \in {[inv[i] EXCEPT !.log = Logged(i, "documents.get", code)]} :
       \E paragraphRange \in {getParagraphRange(FlatOf(remote.bodies[1]), inv[i].index)} :
          inv' = [inv EXCEPT ![i] =
                IF code # 200 THEN CatchWrap(rec, err)
                ELSE IF ~paragraphRange.found THEN Throw(rec, "ParagraphNotFound", 0)
                ELSE BuildStyle(rec, paragraphRange.startIndex, paragraphRange.endIndex,
                                buildUpdateParagraphStyleRequest(
                                    paragraphRange.startIndex, paragraphRange.endIndex,
                                    inv[i].style), TRUE)]
    /\ UNCHANGED <<probe, remote, drive, started>>

\* applyParagraphStyle on an explicit range.
ParagraphStyleRange(i) ==
    /\ inv[i].tool = "applyParagraphStyle"
    /\ inv[i].pc = "begin"
    /\ inv[i].target = "range"
    /\ inv' = [inv EXCEPT ![i] =
                 BuildStyle(inv[i], inv[i].index, inv[i].endIndex,
                            buildUpdateParagraphStyleRequest(inv[i].index, inv[i].endIndex,
                                                             inv[i].style), TRUE)]
    /\ UNCHANGED <<probe, remote, drive, started>>

ParagraphStyleSubmit(i) == SubmitStep(i, "applyParagraphStyle", "styled")

(***************************************************************************)
(* The tools that create Drive files.  drive is the sequence of the files   *)
(* the invocations have created; a created document is a legacy document.   *)
(***************************************************************************)
NoDoc == [legacy |-> TRUE, bodies |-> <<>>, revision |-> 0]

NewDoc == [legacy |-> TRUE, bodies |-> <<EmptyBody>>, revision |-> 0]

TemplateDoc ==
    [legacy |-> TRUE, bodies |-> <<MkBody(<<"a", "H", "\n">>, <<0, 0, 0>>)>>, revision |-> 0]

File(kind, doc) == [kind |-> kind, doc |-> doc]

\* insertLocalImage with uploadToSameFolder: drive.files.get for the parents;
\* its failure is logged and ignored.
ImageParents(i) ==
    /\ inv[i].tool = "insertLocalImage"
    /\ inv[i].pc = "begin"
    /\ inv[i].flag
    /\ \E code \in Codes :
          inv' = [inv EXCEPT ![i] = [inv[i] EXCEPT !.pc = "upload",
                                                    !.log = Logged(i, "files.get", code)]]
    /\ UNCHANGED <<probe, remote, drive, started>>

\* GDocsHelpers.uploadImageToDrive creates the image file; then
\* GDocsHelpers.insertInlineImage builds the request at args.index.
ImageUpload(i) ==
    /\ inv[i].tool = "insertLocalImage"
    /\ inv[i].pc = "upload" \/ (inv[i].pc = "begin" /\ ~inv[i].flag)
    /\ \E code \in Codes :
       \E err \in HelperErrors(code) :
       \E rec \in {[inv[i] EXCEPT !.log = Logged(i, "files.create", code)]} :
          IF code # 200
          THEN /\ inv' = [inv EXCEPT ![i] = CatchWrap(rec, err)]
               /\ drive' = drive
          ELSE /\ drive' = Append(drive, File("image", NoDoc))
               /\ inv' = [inv EXCEPT ![i] =
                            [rec EXCEPT !.pc = "submit", !.file = Len(drive) + 1,
                                        !.requests = <<Request("insertInlineImage", NoTabId,
                                                               inv[i].index, 0, <<>>, {})>>]]
    /\ UNCHANGED <<probe, remote, started>>

ImageSubmit(i) == SubmitStep(i, "insertLocalImage", "inserted")

\* createDocument: drive.files.create, with the handler's catch.
CreateDocumentCreate(i) ==
    /\ inv[i].tool = "createDocument"
    /\ inv[i].pc = "begin"
    /\ \E code \in Codes :
       \E rec \in {[inv[i] EXCEPT !.log = Logged(i, "files.create", code)]} :
          IF code # 200
          THEN /\ inv' = [inv EXCEPT ![i] =
                            IF code = 404 THEN Throw(rec, "ParentNotFound", code)
                            ELSE IF code = 403 THEN Throw(rec, "PermissionDenied", code)
                            ELSE Throw(rec, "Failed", code)]
               /\ drive' = drive
          ELSE /\ drive' = Append(drive, File("document", NewDoc))
               /\ inv' = [inv EXCEPT ![i] =
                            IF inv[i].flag
                            THEN [rec EXCEPT !.pc = "content", !.file = Len(drive) + 1,
                                             !.requests = <<Request("insertText", NoTabId, 1, 0,
                                                                    inv[i].text, {})>>]
                            ELSE Return([rec EXCEPT !.file = Len(drive) + 1], "created")]
    /\ UNCHANGED <<probe, remote, started>>

\* try { docs.documents.batchUpdate on the new document } catch { log.warn }:
\* the handler returns its result either way.
DirectBatchUpdate(i, tool, pc, okKind, degradedKind) ==
    /\ inv[i].tool = tool
    /\ inv[i].pc = pc
    /\ \E code \in Codes :
       \E b \in {BatchUpdate(drive[inv[i].file].doc, inv[i].requests)} :
       \E rec \in {[inv[i] EXCEPT !.log = Logged(i, "documents.batchUpdate",
                                                  IF code = 200 /\ ~b.ok THEN 400 ELSE code)]} :
          IF code = 200 /\ b.ok
          THEN /\ drive' = [drive EXCEPT ![inv[i].file].doc = b.remote]
               /\ inv' = [inv EXCEPT ![i] = Return(rec, okKind)]
          ELSE /\ drive' = drive
               /\ inv' = [inv EXCEPT ![i] = Return(rec, degradedKind)]
    /\ UNCHANGED <<probe, remote, started>>

CreateDocumentContent(i) ==
    DirectBatchUpdate(i, "createDocument", "content", "createdWithContent",
                      "createdWithoutContent")

TemplateRequestsReversed(replacements) ==
    [k \in 1..Len(replacements) |->
        [Request("replaceAllText", NoTabId, 0, 0,
                 <<replacements[Len(replacements) + 1 - k][2]>>, {})
           EXCEPT !.containsText = <<replacements[Len(replacements) + 1 - k][1]>>]]

\* for (const [searchText, replaceText] of Object.entries(args.replacements))
\*     requests.push({replaceAllText: {containsText: {text: searchText,
\*                    matchCase: false}, replaceText}})
TemplateRequests(replacements) ==
    [k \in 1..Len(replacements) |->
        [Request("replaceAllText", NoTabId, 0, 0, <<replacements[k][2]>>, {})
           EXCEPT !.containsText = <<replacements[k][1]>>]]

\* createFromTemplate: drive.files.copy, with the handler's catch.
TemplateCopy(i) ==
    /\ inv[i].tool = "createFromTemplate"
    /\ inv[i].pc = "begin"
    /\ \E code \in Codes :
       \E rec \in {[inv[i] EXCEPT !.log = Logged(i, "files.copy", code)]} :
          IF code # 200
          THEN /\ inv' = [inv EXCEPT ![i] =
                            IF code = 404 THEN Throw(rec, "TemplateNotFound", code)
                            ELSE IF code = 403 THEN Throw(rec, "PermissionDenied", code)
                            ELSE Throw(rec, "Failed", code)]
               /\ drive' = drive
          ELSE /\ drive' = Append(drive, File("document", TemplateDoc))
               /\ inv' = [inv EXCEPT ![i] =
                            IF Len(inv[i].text) > 0
                            THEN [rec EXCEPT !.pc = "replace", !.file = Len(drive) + 1,
                                             !.requests = TemplateRequests(inv[i].text)]
                            ELSE Return([rec EXCEPT !.file = Len(drive) + 1], "created")]
    /\ UNCHANGED <<probe, remote, started>>

TemplateReplace(i) ==
    DirectBatchUpdate(i, "createFromTemplate", "replace", "createdWithReplacements",
                      "createdWithoutReplacements")

(***************************************************************************)
(* The specification of the tools: invocations one after the other on a     *)
(* multi-tab or a legacy document.                                          *)
(***************************************************************************)
\* "ab", a table of one cell holding "a", then "a".
MainBody ==
    MkBody(<<"a", "b", "\n", "<T>", "<R>", "<C>", "a", "\n", "<E>", "a", "\n">>,
           <<0, 0, 0, 0, 0, 0, 0, 0, 0, 0, 0>>)

ChildBody == MkBody(<<"b", "\n">>, <<0, 0>>)

MultiTabRemote ==
    [legacy |-> FALSE, bodies |-> <<MainBody, ChildBody, EmptyBody>>, revision |-> 0]

LegacyRemote == [legacy |-> TRUE, bodies |-> <<MainBody>>, revision |-> 0]

Init ==
    /\ probe = NoProbe
    /\ remote \in {MultiTabRemote, LegacyRemote}
    /\ drive = <<>>
    /\ inv = [i \in Slots |-> Idle]
    /\ started = 0

Step(i) ==
    \/ Invoke(i)
    \/ ReadGoogleDocGet(i)
    \/ ListDocumentTabsGet(i)
    \/ EditTableCell(i)
    \/ FindElement(i)
    \/ AppendGet(i)
    \/ AppendSubmit(i)
    \/ InsertTextGet(i)
    \/ InsertTextHelper(i)
    \/ InsertTextSubmit(i)
    \/ DeleteRangeCheck(i)
    \/ DeleteRangeGet(i)
    \/ DeleteRangeSubmit(i)
    \/ ApplyTextStyleFind(i)
    \/ ApplyTextStyleRange(i)
    \/ ApplyTextStyleSubmit(i)
    \/ FormatMatchingTextFind(i)
    \/ FormatMatchingTextSubmit(i)
    \/ ParagraphStyleFind(i)
    \/ ParagraphStyleIndex(i)
    \/ ParagraphStyleLookup(i)
    \/ ParagraphStyleRange(i)
    \/ ParagraphStyleSubmit(i)
    \/ ImageParents(i)
    \/ ImageUpload(i)
    \/ ImageSubmit(i)
    \/ CreateDocumentCreate(i)
    \/ CreateDocumentContent(i)
    \/ TemplateCopy(i)
    \/ TemplateReplace(i)

Next == Step(1)

Spec == Init /\ [][Next]_vars

(***************************************************************************)
(* Properties of the tools.                                                 *)
(***************************************************************************)
Done(i) == inv[i].pc = "done"

SubmittedBatch(i) ==
    \E k \in 1..Len(inv[i].log) : inv[i].log[k].api = "documents.batchUpdate"

\* The first read of the invocation came back.
FirstReadOk(i) ==
    /\ inv[i].log # <<>>
    /\ inv[i].log[1].api = "documents.get"
    /\ inv[i].log[1].code = 200

TabTools == {"readGoogleDoc", "appendToGoogleDoc", "insertText", "deleteRange"}

ResolutionFailures == {"TabNotFound", "TabHasNoContent", "TextNotFound", "ParagraphNotFound"}

\* The tab the tabId names in the document the invocation started on.
TabBefore(i) == findTabById([tabs |-> RemoteTabs(inv[i].before)], inv[i].tabId)

TextBefore(i) ==
    findTextRange(FlatOf(inv[i].before.bodies[1]), inv[i].text,
                  IF inv[i].instance = 0 THEN 1 ELSE inv[i].instance)

\* C3: an invocation that ends with TabNotFound, TabHasNoContent,
\* TextNotFound or ParagraphNotFound has failed, has submitted no batchUpdate
\* and has left the remote document as it was; and when the document was
\* read and the target does not resolve (the tabId names no tab, the tab has
\* no document body, the instance of the text is not there, no paragraph
\* holds the index), the invocation ends with that failure.
C3_ResolutionFailureNoSubmit ==
    \A i \in Slots :
       Done(i) =>
          /\ inv[i].kind \in ResolutionFailures =>
                /\ inv[i].outcome = "error"
                /\ ~SubmittedBatch(i)
                /\ remote = inv[i].before
          /\ (inv[i].tool \in TabTools /\ inv[i].tabId # NoTabId /\ FirstReadOk(i)) =>
                /\ ~TabBefore(i).found => inv[i].kind = "TabNotFound"
                /\ (TabBefore(i).found /\ ~TabBefore(i).tab.hasDocumentTab) =>
                      inv[i].kind = "TabHasNoContent"
          /\ (inv[i].target = "text" /\ FirstReadOk(i) /\ ~TextBefore(i).found) =>
                inv[i].kind = "TextNotFound"
          /\ (inv[i].target = "index" /\ FirstReadOk(i)
                /\ ~getParagraphRange(FlatOf(inv[i].before.bodies[1]), inv[i].index).found) =>
                inv[i].kind = "ParagraphNotFound"

C3_Witness ==
    /\ Done(1)
    /\ inv[1].tool = "deleteRange"
    /\ inv[1].kind = "TabHasNoContent"
    /\ started = 2
    /\ inv[1].before # MultiTabRemote

\* The tab of the document that TabIdOf(t) names, 0 for no tabId.
TabIndexOf(tabId) == IF tabId = NoTabId THEN 0 ELSE tabId[2]

OtherTabsUnchanged(i, t) ==
    /\ Len(remote.bodies) = Len(inv[i].before.bodies)
    /\ \A u \in 1..Len(remote.bodies) : u # t => remote.bodies[u] = inv[i].before.bodies[u]

\* Index k of the body lies in a table.
InTableAt(body, k) ==
    \E a \in 1..k :
       /\ body.toks[a] = "<T>"
       /\ \A b \in a..k : body.toks[b] # "<E>"

\* The characters of the body's paragraphs outside tables.
TopLevelText(body) ==
    LET keep == {k \in 1..BodyLen(body) : IsChar(body.toks[k]) /\ ~InTableAt(body, k)}
    IN [n \in 1..Cardinality(keep) |-> body.toks[SortedSeq(keep)[n]]]

\* C6: an invocation of readGoogleDoc, appendToGoogleDoc, insertText or
\* deleteRange without tabId asks for no tabs content and never ends with a
\* tab failure; every request it submits carries no tabId; readGoogleDoc
\* returns the text of the document body (the first tab's), appendToGoogleDoc
\* inserts before the final newline of that body; and what it changes is the
\* first tab (the body of a legacy document) only.
C6_NoTabIdTargetsFirstTab ==
    \A i \in Slots :
       (Done(i) /\ inv[i].tool \in TabTools /\ inv[i].tabId = NoTabId) =>
          /\ \A k \in 1..Len(inv[i].log) : ~inv[i].log[k].includeTabsContent
          /\ inv[i].kind \notin {"TabNotFound", "TabHasNoContent"}
          /\ \A k \in 1..Len(inv[i].requests) : inv[i].requests[k].tabId = NoTabId
          /\ (inv[i].tool = "readGoogleDoc" /\ inv[i].outcome = "ok") =>
                inv[i].result = TopLevelText(inv[i].before.bodies[1])
          /\ (inv[i].tool = "appendToGoogleDoc" /\ inv[i].requests # <<>>) =>
                inv[i].requests[1].index = BodyLen(inv[i].before.bodies[1])
          /\ OtherTabsUnchanged(i, 1)
          /\ inv[i].kind \in {"appended", "inserted", "deleted"} =>
                remote.bodies[1] # inv[i].before.bodies[1]

C6_Witness ==
    /\ Done(1)
    /\ inv[1].tool = "deleteRange"
    /\ inv[1].tabId = NoTabId
    /\ inv[1].kind = "deleted"
    /\ ~inv[1].before.legacy
    /\ started = 2

\* C7: an invocation of appendToGoogleDoc, insertText or deleteRange with
\* tabId T submits requests that carry tabId T, for appendToGoogleDoc at the
\* index before the final newline of tab T's body, and leaves the body of
\* every other tab as it was.
C7_TabIsolation ==
    \A i \in Slots :
       (Done(i) /\ inv[i].tool \in TabTools \ {"readGoogleDoc"} /\ inv[i].tabId # NoTabId) =>
          /\ \A k \in 1..Len(inv[i].requests) : inv[i].requests[k].tabId = inv[i].tabId
          /\ (inv[i].tool = "appendToGoogleDoc" /\ inv[i].requests # <<>>) =>
                inv[i].requests[1].index =
                   BodyLen(inv[i].before.bodies[TabIndexOf(inv[i].tabId)])
          /\ OtherTabsUnchanged(i, TabIndexOf(inv[i].tabId))
          /\ inv[i].kind \in {"appended", "inserted", "deleted"} =>
                remote.bodies[TabIndexOf(inv[i].tabId)]
                   # inv[i].before.bodies[TabIndexOf(inv[i].tabId)]

C7_Witness ==
    /\ Done(1)
    /\ inv[1].tool = "appendToGoogleDoc"
    /\ inv[1].tabId = TabIdOf(2)
    /\ inv[1].kind = "appended"
    /\ started = 2
    /\ inv[1].before.bodies[1] # MainBody

\* C4: no invocation applies in part: one that fails has changed neither
\* the document nor the Drive files, and none returns a result that reports
\* a file created but its content or replacements not applied.
C4_NoPartialApplication ==
    \A i \in Slots :
       Done(i) =>
          /\ inv[i].outcome = "error" =>
                remote = inv[i].before /\ Len(drive) = inv[i].filesBefore
          /\ inv[i].kind \notin {"createdWithoutContent", "createdWithoutReplacements"}

(***************************************************************************)
(* The specification of the batches: executeBatchUpdate on a batch of       *)
(* deletions and insertions, and createFromTemplate's batch of              *)
(* replacements on the copy of the template.                                *)
(***************************************************************************)
MaxBatchLen == 2

BatchBody == MkBody(<<"a", "b", "c", "\n">>, <<0, 0, 0, 0>>)

\* Scenario C: a paragraph of 25 characters.
ScenarioCBody ==
    MkBody(<<"a", "b", "c", "d", "e", "f", "g", "h", "i", "j", "k", "l", "m", "n", "o",
             "p", "q", "r", "s", "t", "u", "v", "w", "x", "y", "\n">>,
           [k \in 1..26 |-> 0])

ScenarioCBatch ==
    <<Request("deleteContentRange", NoTabId, 10, 20, <<>>, {}),
      Request("insertText", NoTabId, 10, 0, <<"X">>, {})>>

BatchOps ==
    {Request("deleteContentRange", NoTabId, s, e, <<>>, {}) :
        s \in 1..BodyLen(BatchBody), e \in 2..BodyLen(BatchBody)}
    \cup {Request("insertText", NoTabId, x, 0, <<"X">>, {}) : x \in 1..BodyLen(BatchBody)}

ReplacementPairs == {<<"a", "h">>, <<"h", "c">>, <<"c", "a">>}

BatchProbes ==
    {[fn |-> "executeBatchUpdate", body |-> BatchBody, requests |-> reqs, code |-> code,
      done |-> FALSE, out |-> <<>>] :
        reqs \in SeqsUpTo(BatchOps, 1, MaxBatchLen), code \in {200, 500}}
    \cup
    {[fn |-> "executeBatchUpdate", body |-> ScenarioCBody, requests |-> ScenarioCBatch,
      code |-> 200, done |-> FALSE, out |-> <<>>]}

TemplateProbes ==
    {[fn |-> "createFromTemplate", body |-> TemplateDoc.bodies[1], replacements |-> r,
      code |-> 200, done |-> FALSE, out |-> <<>>] :
        r \in SeqsUpTo(ReplacementPairs, 1, MaxBatchLen)}

LegacyDocOf(body) == [legacy |-> TRUE, bodies |-> <<body>>, revision |-> 0]

ApplyExecuteBatchUpdate ==
    /\ probe.fn = "executeBatchUpdate"
    /\ ~probe.done
    /\ probe' = [probe EXCEPT
                   !.done = TRUE,
                   !.out = executeBatchUpdate(LegacyDocOf(probe.body), probe.requests,
                                              probe.code)]
    /\ UNCHANGED mainVars

\* The requests createFromTemplate builds and their batchUpdate on the copy.
ApplyTemplateRequests ==
    /\ probe.fn = "createFromTemplate"
    /\ ~probe.done
    /\ \E requests \in {TemplateRequests(probe.replacements)} :
          probe' = [probe EXCEPT
                      !.done = TRUE,
                      !.out = [submitted |-> requests,
                               batch |-> BatchUpdate(LegacyDocOf(probe.body), requests)]]
    /\ UNCHANGED mainVars

BatchInit == probe \in BatchProbes \cup TemplateProbes /\ NoInvocations

BatchNext == ApplyExecuteBatchUpdate \/ ApplyTemplateRequests

SpecBatch == BatchInit /\ [][BatchNext]_vars

\* The tokens after the request, its location read in these tokens.
TokensAfter(toks, req) ==
    IF req.op = "insertText"
    THEN SubSeq(toks, 1, req.index - 1) \o req.text \o SubSeq(toks, req.index, Len(toks))
    ELSE SubSeq(toks, 1, req.index - 1) \o SubSeq(toks, req.endIndex, Len(toks))

\* The requests one after the other, each on the tokens the ones before it
\* left.
RECURSIVE TokensAfterAll(_, _)
TokensAfterAll(toks, reqs) ==
    IF reqs = <<>> THEN toks
    ELSE TokensAfterAll(TokensAfter(toks, Head(reqs)), Tail(reqs))

\* The tokens with every character that is c, in whatever case, made d.
Replaced(toks, c, d) ==
    [k \in 1..Len(toks) |-> IF Lower(toks[k]) = Lower(c) THEN d ELSE toks[k]]

RECURSIVE ReplacedAll(_, _)
ReplacedAll(toks, pairs) ==
    IF pairs = <<>> THEN toks
    ELSE ReplacedAll(Replaced(toks, Head(pairs)[1], Head(pairs)[2]), Tail(pairs))

StyleTools == {"applyTextStyle", "applyParagraphStyle", "formatMatchingText"}

\* Every remote call of the invocation was answered.
AllCallsOk(i) == \A k \in 1..Len(inv[i].log) : inv[i].log[k].code = 200

\* The target of the style invocation names a valid range of the document
\* the invocation started on.
TargetResolved(i) ==
    CASE inv[i].target = "text" ->
           /\ TextBefore(i).found
           /\ inv[i].tool = "applyParagraphStyle" =>
                 getParagraphRange(FlatOf(inv[i].before.bodies[1]),
                                   TextBefore(i).startIndex).found
      [] inv[i].target = "index" ->
           getParagraphRange(FlatOf(inv[i].before.bodies[1]), inv[i].index).found
      [] inv[i].target = "range" -> inv[i].endIndex > inv[i].index
      [] OTHER -> FALSE

\* C11 as claimed: a style tool called with an intent that sets no attribute,
\* on a target that resolves to a valid range, returns the "no valid styling
\* options" message as a normal result and submits no batchUpdate; this for
\* applyTextStyle, applyParagraphStyle and formatMatchingText alike.
C11_EmptyIntentIsNoOp ==
    \A i \in Slots :
       (/\ Done(i)
        /\ inv[i].tool \in StyleTools
        /\ inv[i].style = NoAttributes
        /\ TargetResolved(i)
        /\ AllCallsOk(i)) =>
          /\ inv[i].outcome = "ok"
          /\ inv[i].kind = "NoStyle"
          /\ ~SubmittedBatch(i)

\* C11 amended: for every valid range both builders return null for the
\* intent that sets no attribute; a style tool called with that intent never
\* submits a batchUpdate and leaves the document as it was; applyTextStyle
\* and applyParagraphStyle, once the target resolves to a valid range, return
\* the "no valid styling options" message as a normal result; and
\* formatMatchingText never reaches its builder with such an intent: its
\* parameters are rejected before any remote call.
C11_NoOpLaw ==
    /\ \A s \in 1..MaxParaLen : \A e \in (s + 1)..(MaxParaLen + 1) :
          /\ buildUpdateTextStyleRequest(s, e, NoAttributes).op = "none"
          /\ buildUpdateParagraphStyleRequest(s, e, NoAttributes).op = "none"
    /\ \A i \in Slots :
          (Done(i) /\ inv[i].tool \in StyleTools /\ inv[i].style = NoAttributes) =>
             /\ ~SubmittedBatch(i)
             /\ remote = inv[i].before
             /\ inv[i].kind = "NoStyle" => inv[i].outcome = "ok"
             /\ inv[i].tool = "formatMatchingText" =>
                   /\ inv[i].outcome = "error"
                   /\ inv[i].kind = "InvalidParams"
                   /\ inv[i].log = <<>>
             /\ (inv[i].tool # "formatMatchingText" /\ TargetResolved(i) /\ AllCallsOk(i)) =>
                   /\ inv[i].outcome = "ok"
                   /\ inv[i].kind = "NoStyle"

C11_Witness ==
    /\ Done(1)
    /\ inv[1].tool = "applyParagraphStyle"
    /\ inv[1].style = NoAttributes
    /\ inv[1].kind = "NoStyle"
    /\ Len(inv[1].log) = 2
    /\ started = 2

(***************************************************************************)
(* The specification of the helpers of the handlers: the colour test of     *)
(* the style parameters, the style builders, and the insertion point        *)
(* appendToGoogleDoc computes from the snapshot it reads.                    *)
(***************************************************************************)
MaxColorLen == 7

MaxEndIndex == 5

ColorChars == {"#", "F", "f", "0", "G"}

ColorProbes ==
    {[fn |-> "HexColorTest", color |-> c, done |-> FALSE, out |-> FALSE] :
        c \in SeqsUpTo(ColorChars, 0, MaxColorLen)}

\* The intents the builders are tried on: each attribute undefined or set.
Intents ==
    {Intent([bold |-> b, italic |-> i, foregroundColor |-> f, linkUrl |-> u,
             alignment |-> a, namedStyleType |-> n]) :
        b \in {Undefined, <<"true">>, <<"false">>},
        i \in {Undefined, <<"true">>},
        f \in {Undefined, <<"#", "F", "F", "F">>},
        u \in {Undefined, GoodUrl},
        a \in {Undefined, <<"CENTER">>},
        n \in {Undefined, <<"HEADING_1">>}}

BuilderProbes ==
    {[fn |-> b, style |-> st, startIndex |-> 1, endIndex |-> 3, done |-> FALSE,
      out |-> Request("none", NoTabId, 0, 0, <<>>, {})] :
        b \in {"buildUpdateTextStyleRequest", "buildUpdateParagraphStyleRequest"},
        st \in Intents}

\* The content of a body as documents.get returns it: the section break that
\* ends at 1, then elements that end further on; <<>> for no content.
SnapshotContents ==
    {<<>>} \cup
    {[k \in 1..(Cardinality(S) + 1) |->
         [endIndex |-> IF k = 1 THEN 1 ELSE SortedSeq(S)[k - 1]]] :
        S \in SUBSET (2..MaxEndIndex)}

\* The content of the bodies of the locator checks, with endIndex only; toks
\* are the tokens of the body the content was read from.
BodySnapshots ==
    {[toks |-> t,
      content |-> Let(BodyContent(MkBody(t, StyleOf("plain", Len(t)))), LAMBDA c :
                     [k \in 1..Len(c) |-> [endIndex |-> c[k].endIndex]])] :
        t \in BodyToks}

AppendProbes ==
    {[fn |-> "appendToGoogleDoc", bodyContent |-> c, toks |-> <<>>, addNewlineIfNeeded |-> f,
      tabId |-> t, done |-> FALSE, out |-> <<>>] :
        c \in SnapshotContents, f \in BOOLEAN, t \in {NoTabId, TabIdOf(1)}}
    \cup
    {[fn |-> "appendToGoogleDoc", bodyContent |-> b.content, toks |-> b.toks,
      addNewlineIfNeeded |-> f, tabId |-> NoTabId, done |-> FALSE, out |-> <<>>] :
        b \in BodySnapshots, f \in BOOLEAN}

ApplyHexColorTest ==
    /\ probe.fn = "HexColorTest"
    /\ ~probe.done
    /\ probe' = [probe EXCEPT !.done = TRUE, !.out = HexColorTest(probe.color)]
    /\ UNCHANGED mainVars

ApplyBuildTextStyle ==
    /\ probe.fn = "buildUpdateTextStyleRequest"
    /\ ~probe.done
    /\ probe' = [probe EXCEPT
                   !.done = TRUE,
                   !.out = buildUpdateTextStyleRequest(probe.startIndex, probe.endIndex,
                                                       probe.style)]
    /\ UNCHANGED mainVars

ApplyBuildParagraphStyle ==
    /\ probe.fn = "buildUpdateParagraphStyleRequest"
    /\ ~probe.done
    /\ probe' = [probe EXCEPT
                   !.done = TRUE,
                   !.out = buildUpdateParagraphStyleRequest(probe.startIndex, probe.endIndex,
                                                            probe.style)]
    /\ UNCHANGED mainVars

\* The requests appendToGoogleDoc builds from the content it read.
ApplyAppendRequest ==
    /\ probe.fn = "appendToGoogleDoc"
    /\ ~probe.done
    /\ \E endIndex \in {AppendEndIndex(probe.bodyContent)} :
       \E textToInsert \in {AppendText(probe.addNewlineIfNeeded, endIndex, <<"x">>)} :
          probe' = [probe EXCEPT
                      !.done = TRUE,
                      !.out = <<AppendRequest(probe.tabId, endIndex, textToInsert)>>]
    /\ UNCHANGED mainVars

HelpersInit ==
    /\ probe \in ColorProbes \cup BuilderProbes \cup AppendProbes
    /\ NoInvocations

HelpersNext ==
    \/ ApplyHexColorTest
    \/ ApplyBuildTextStyle
    \/ ApplyBuildParagraphStyle
    \/ ApplyAppendRequest

SpecHelpers == HelpersInit /\ [][HelpersNext]_vars

\* The attributes of the probe's builder that the probe's intent sets.
PresentAttrs(attrs) == {attrs[k] : k \in {j \in 1..Len(attrs) : probe.style[attrs[j]] # Undefined}}

BuilderAttrs ==
    IF probe.fn = "buildUpdateTextStyleRequest" THEN TextAttrs ELSE ParagraphAttrs

\* C12: for every intent that sets at least one attribute of the builder,
\* the builder returns one mutation operation (updateTextStyle from the text
\* builder, updateParagraphStyle from the paragraph builder) on the range it
\* was given, and the fields mask of that operation holds exactly the
\* attributes the intent sets: each one that is set, also when it is set to
\* false, and none that is undefined.
C12_FieldsMask ==
    (probe.fn \in {"buildUpdateTextStyleRequest", "buildUpdateParagraphStyleRequest"}
       /\ probe.done /\ PresentAttrs(BuilderAttrs) # {}) =>
          /\ probe.out.op = IF probe.fn = "buildUpdateTextStyleRequest"
                            THEN "updateTextStyle" ELSE "updateParagraphStyle"
          /\ probe.out.fields = PresentAttrs(BuilderAttrs)
          /\ probe.out.index = probe.startIndex
          /\ probe.out.endIndex = probe.endIndex

C12_Witness ==
    /\ probe.fn = "buildUpdateTextStyleRequest"
    /\ probe.done
    /\ probe.style["bold"] = <<"false">>
    /\ probe.style["italic"] = Undefined
    /\ probe.style["linkUrl"] = GoodUrl
    /\ probe.style["alignment"] = <<"CENTER">>
    /\ probe.out.fields = {"bold", "linkUrl"}

\* The colour without its leading "#", if it has one.
ColorDigits(color) == IF color # <<>> /\ color[1] = "#" THEN Tail(color) ELSE color

\* C18: the colour test accepts a string exactly when it is an optional "#"
\* followed by exactly 3 or exactly 6 hexadecimal digits of either case:
\* "#FFF", "#FFFFFF" and "FFFFFF" are accepted; 4 or 5 digits, a character
\* that is no hexadecimal digit, a second "#" or a character before the "#"
\* make it reject.
C18_ColorValidation ==
    (probe.fn = "HexColorTest" /\ probe.done) =>
       /\ probe.out <=>
             /\ Len(ColorDigits(probe.color)) \in {3, 6}
             /\ \A k \in 1..Len(ColorDigits(probe.color)) :
                   ColorDigits(probe.color)[k] \in HexDigits
       /\ probe.color \in {<<"#", "F", "F", "F">>, <<"#", "F", "F", "F", "F", "F", "F">>,
                           <<"F", "F", "F", "F", "F", "F">>, <<"f", "0", "F">>} => probe.out
       /\ Len(ColorDigits(probe.color)) \in {0, 1, 2, 4, 5} => ~probe.out
       /\ (\E k \in 1..Len(probe.color) : probe.color[k] = "G") => ~probe.out
       /\ (\E k \in 2..Len(probe.color) : probe.color[k] = "#") => ~probe.out

C18_Witness ==
    /\ probe.fn = "HexColorTest"
    /\ probe.done
    /\ probe.color = <<"F", "F", "F", "F", "F", "F">>
    /\ probe.out

(***************************************************************************)
(* Properties of validation, locations and batch size.                      *)
(***************************************************************************)
\* The value is set and is no hex colour.
BadColorValue(c) ==
    /\ c # Undefined
    /\ ~(/\ Len(ColorDigits(c)) \in {3, 6}
         /\ \A k \in 1..Len(ColorDigits(c)) : ColorDigits(c)[k] \in HexDigits)

\* The call carries an explicit range that ends at or before its start, or
\* a text style with a bad colour or a bad link.
InvalidInput(i) ==
    \/ inv[i].tool = "deleteRange" /\ inv[i].endIndex <= inv[i].index
    \/ /\ inv[i].tool \in {"applyTextStyle", "applyParagraphStyle"}
       /\ inv[i].target = "range"
       /\ inv[i].endIndex <= inv[i].index
    \/ /\ inv[i].tool \in {"applyTextStyle", "formatMatchingText"}
       /\ \/ BadColorValue(inv[i].style["foregroundColor"])
          \/ BadColorValue(inv[i].style["backgroundColor"])
          \/ inv[i].style["linkUrl"] = BadUrl

ValidationFailures == {"InvalidParams", "InvalidRange"}

\* C13: an invocation of deleteRange, applyTextStyle or applyParagraphStyle
\* with an explicit range whose endIndex <= startIndex, or of a text-style
\* tool whose style carries a bad colour or a bad link, ends with an
\* input-validation failure, has made no remote call at all (no documents.get,
\* no batchUpdate) and has left the document as it was; and whichever
\* invocation ends with an input-validation failure has made no remote call.
C13_ValidationBeforeRemote ==
    \A i \in Slots :
       Done(i) =>
          /\ InvalidInput(i) =>
                /\ inv[i].outcome = "error"
                /\ inv[i].kind \in ValidationFailures
          /\ inv[i].kind \in ValidationFailures =>
                /\ inv[i].log = <<>>
                /\ remote = inv[i].before
                /\ Len(drive) = inv[i].filesBefore

C13_Witness ==
    /\ Done(1)
    /\ inv[1].tool = "formatMatchingText"
    /\ inv[1].style = BadColor
    /\ inv[1].kind = "InvalidParams"
    /\ inv[1].log = <<>>
    /\ started = 2

LocatedOps ==
    {"insertText", "insertInlineImage", "deleteContentRange", "updateTextStyle",
     "updateParagraphStyle"}

\* The request addresses a valid location: its index is at least 1, and a
\* range ends after its start.
ValidLocation(req) ==
    req.op \in LocatedOps =>
       /\ req.index >= 1
       /\ req.op \notin {"insertText", "insertInlineImage"} => req.endIndex > req.index

\* On the documents of the tools' specification every request an invocation
\* has submitted addresses a valid location.
SubmittedLocationsValid ==
    \A i \in Slots :
       SubmittedBatch(i) => \A k \in 1..Len(inv[i].requests) : ValidLocation(inv[i].requests[k])

\* C14: whatever content the snapshot holds (no content, the section break
\* alone, which ends at 1, or elements that end further on), the insertText
\* that appendToGoogleDoc builds has an index of at least 1.
C14_ValidLocations ==
    (probe.fn = "appendToGoogleDoc" /\ probe.done) =>
       \A k \in 1..Len(probe.out) : ValidLocation(probe.out[k])

\* C15: no invocation has submitted a batch of more than MAX_BATCH_SIZE
\* requests; an invocation whose request list is larger has ended with
\* BatchTooLarge and has left the remote document and the Drive files'
\* documents as they were.
C15_NoOversizedBatch ==
    \A i \in Slots :
       /\ SubmittedBatch(i) => Len(inv[i].requests) <= MAX_BATCH_SIZE
       /\ (Done(i) /\ Len(inv[i].requests) > MAX_BATCH_SIZE) =>
             /\ inv[i].outcome = "error"
             /\ inv[i].kind = "BatchTooLarge"

(***************************************************************************)
(* Properties of failures, stubs and reads.                                 *)
(***************************************************************************)
DocumentTools ==
    {"readGoogleDoc", "listDocumentTabs", "appendToGoogleDoc", "insertText", "deleteRange"}

\* The last remote call of the invocation.
LastCall(i) == inv[i].log[Len(inv[i].log)]

\* The failure kinds that report a document that is not there, and those
\* that report a failed remote operation with the upstream message.
NotFoundKinds == {"DocNotFound", "DocumentNotFound"}

RemoteFailedKinds == {"Failed", "RemoteOperationFailed"}

\* C16: an invocation of readGoogleDoc, listDocumentTabs, appendToGoogleDoc,
\* insertText or deleteRange whose remote call (the read of the snapshot or
\* the batchUpdate) failed ends with an error: document-not-found when the
\* code is 404, permission-denied when it is 403, and a remote-operation
\* failure with the upstream message for every other code.
C16_RemoteFailureMapping ==
    \A i \in Slots :
       (/\ Done(i)
        /\ inv[i].tool \in DocumentTools
        /\ inv[i].log # <<>>
        /\ LastCall(i).code # 200) =>
          /\ inv[i].outcome = "error"
          /\ LastCall(i).code = 404 => inv[i].kind \in NotFoundKinds
          /\ LastCall(i).code = 403 => inv[i].kind = "PermissionDenied"
          /\ LastCall(i).code \notin {403, 404} => inv[i].kind \in RemoteFailedKinds

\* The positions of the batchUpdate calls in the log of the invocation.
BatchCalls(i) == {k \in 1..Len(inv[i].log) : inv[i].log[k].api = "documents.batchUpdate"}

\* C17: an invocation calls batchUpdate at most once, and when that call
\* fails it is the last remote call of the invocation, which ends with an
\* error.
C17_NoRetry ==
    \A i \in Slots :
       /\ Cardinality(BatchCalls(i)) <= 1
       /\ \A k \in BatchCalls(i) :
             inv[i].log[k].code # 200 =>
                /\ k = Len(inv[i].log)
                /\ Done(i)
                /\ inv[i].outcome = "error"

AllText(body) == SelectSeq(body.toks, IsChar)

\* C20: readGoogleDoc in text format returns the text of every text run of
\* the body it targets, the runs of the table cells included, in document
\* order: the body of the first tab without tabId, the tab's body with it.
C20_TextIncludesTables ==
    \A i \in Slots :
       (Done(i) /\ inv[i].tool = "readGoogleDoc" /\ inv[i].kind = "content") =>
          inv[i].result =
             AllText(inv[i].before.bodies[IF inv[i].tabId = NoTabId THEN 1
                                          ELSE TabIndexOf(inv[i].tabId)])

(***************************************************************************)
(* The projections of readGoogleDoc: the Markdown conversion of a body's   *)
(* content and the maxLength limit of the three formats.  Text is a         *)
(* sequence of characters.                                                  *)
(***************************************************************************)
Whitespace == {" ", "\n"}

\* String.prototype.trim
RECURSIVE TrimStart(_)
TrimStart(text) ==
    IF text # <<>> /\ Head(text) \in Whitespace THEN TrimStart(Tail(text)) ELSE text

RECURSIVE TrimEnd(_)
TrimEnd(text) ==
    IF text # <<>> /\ text[Len(text)] \in Whitespace
    THEN TrimEnd(SubSeq(text, 1, Len(text) - 1))
    ELSE text

Trim(text) == TrimEnd(TrimStart(text))

\* '#'.repeat(n)
Repeat(text, n) == Concat([k \in 1..n |-> text])

\* content.replace(/\n/g, ' ')
NewlinesToSpaces(text) == [k \in 1..Len(text) |-> IF text[k] = "\n" THEN " " ELSE text[k]]

\* textRun.textStyle: bold wraps the content in "**".
convertTextRunToMarkdown(textRun) ==
    IF textRun.bold THEN <<"*", "*">> \o textRun.content \o <<"*", "*">>
    ELSE textRun.content

RECURSIVE RunsMarkdown(_)
RunsMarkdown(elements) ==
    IF elements = <<>> THEN <<>>
    ELSE convertTextRunToMarkdown(Head(elements).textRun) \o RunsMarkdown(Tail(elements))

\* A named style is the name and the number that follows it.
NamedStyle(name, n) == [name |-> name, n |-> n]

NoNamedStyle == NamedStyle("", 0)

\* headingLevel of convertParagraphToMarkdown; 0 when the paragraph is not a
\* heading.
HeadingLevel(styleType) ==
    IF styleType.name = "HEADING_" THEN styleType.n
    ELSE IF styleType.name = "TITLE" THEN 1
    ELSE IF styleType.name = "SUBTITLE" THEN 2
    ELSE 0

\* A conversion that renders a heading or a list item whatever its text.
convertParagraphToMarkdownAnyText(paragraph) ==
    LET text == Trim(RunsMarkdown(paragraph.elements))
        headingLevel == HeadingLevel(paragraph.namedStyleType)
    IN IF headingLevel > 0
       THEN Repeat(<<"#">>, headingLevel) \o <<" ">> \o text \o <<"\n", "\n">>
       ELSE IF paragraph.bullet THEN <<"-", " ">> \o text \o <<"\n">>
       ELSE IF text # <<>> THEN text \o <<"\n", "\n">>
       ELSE <<"\n">>

convertParagraphToMarkdown(paragraph) ==
    LET text == Trim(RunsMarkdown(paragraph.elements))
        headingLevel == HeadingLevel(paragraph.namedStyleType)
        isHeading == paragraph.namedStyleType.name \in {"HEADING_", "TITLE", "SUBTITLE"}
        hashes == Repeat(<<"#">>, IF headingLevel < 6 THEN headingLevel ELSE 6)
    IN IF isHeading /\ text # <<>> THEN hashes \o <<" ">> \o text \o <<"\n", "\n">>
       ELSE IF paragraph.bullet /\ text # <<>> THEN <<"-", " ">> \o text \o <<"\n">>
       ELSE IF text # <<>> THEN text \o <<"\n", "\n">>
       ELSE <<"\n">>

\* cellText: of every run of the cell's paragraphs, the content with its
\* newlines made spaces, trimmed.
RECURSIVE CellRunsText(_)
CellRunsText(elements) ==
    IF elements = <<>> THEN <<>>
    ELSE Trim(NewlinesToSpaces(Head(elements).textRun.content))
         \o CellRunsText(Tail(elements))

RECURSIVE CellText(_)
CellText(content) ==
    IF content = <<>> THEN <<>>
    ELSE CellRunsText(Head(content).elements) \o CellText(Tail(content))

RECURSIVE RowText(_)
RowText(cells) ==
    IF cells = <<>> THEN <<"|">>
    ELSE RowText(SubSeq(cells, 1, Len(cells) - 1))
         \o <<" ">> \o CellText(cells[Len(cells)].content) \o <<" ", "|">>

\* A separator of one column whatever the row.
SeparatorOneColumn(n) == <<"|", " ", "-", "-", "-", " ", "|">>

\* separator: '|' and ' --- |' for each cell of the row.
Separator(n) == <<"|">> \o Repeat(<<" ", "-", "-", "-", " ", "|">>, n)

\* tableRows.forEach: a row without a cell list is passed over.
RECURSIVE RowsMarkdown(_, _)
RowsMarkdown(rows, isFirstRow) ==
    IF rows = <<>> THEN <<>>
    ELSE LET row == Head(rows) IN
         IF ~row.hasCells THEN RowsMarkdown(Tail(rows), isFirstRow)
         ELSE RowText(row.tableCells) \o <<"\n">>
              \o (IF isFirstRow THEN Separator(Len(row.tableCells)) \o <<"\n">> ELSE <<>>)
              \o RowsMarkdown(Tail(rows), FALSE)

convertTableToMarkdown(table) ==
    IF table.tableRows = <<>> THEN <<>>
    ELSE <<"\n">> \o RowsMarkdown(table.tableRows, TRUE) \o <<"\n">>

RECURSIVE ContentMarkdown(_)
ContentMarkdown(content) ==
    IF content = <<>> THEN <<>>
    ELSE LET element == Head(content) IN
         (IF element.kind = "paragraph" THEN convertParagraphToMarkdown(element)
          ELSE IF element.kind = "table" THEN convertTableToMarkdown(element)
          ELSE IF element.kind = "sectionBreak" THEN <<"\n", "-", "-", "-", "\n", "\n">>
          ELSE <<>>)
         \o ContentMarkdown(Tail(content))

convertDocsJsonToMarkdown(content) == Trim(ContentMarkdown(content))

\* The length a result reports is a number or nothing.
NotReported == 0 - 1

\* if (args.maxLength && length > args.maxLength) return content.substring(0,
\* args.maxLength) + notice; the notice of the json format gives the total
\* only, and the text format reports a blank text as empty before the limit.
ApplyMaxLength(format, content, hasMaxLength, maxLength) ==
    IF format = "text" /\ IsBlank(content)
    THEN [kind |-> "empty", content |-> <<>>,
          reportedLimit |-> NotReported, reportedTotal |-> NotReported]
    ELSE IF hasMaxLength /\ maxLength # 0 /\ Len(content) > maxLength
    THEN [kind |-> "truncated", content |-> SubSeq(content, 1, maxLength),
          reportedLimit |-> IF format = "json" THEN NotReported ELSE maxLength,
          reportedTotal |-> Len(content)]
    ELSE [kind |-> "full", content |-> content,
          reportedLimit |-> NotReported,
          reportedTotal |-> IF format = "text" THEN Len(content) ELSE NotReported]

(***************************************************************************)
(* The specification of the projections: one conversion or one limit per    *)
(* behaviour, on paragraphs, tables and contents of a few elements.         *)
(***************************************************************************)
MaxContentLen == 3
MaxRuns == 2
MaxRows == 3
MaxCols == 2
MaxDocElems == 3

Run(content, bold) ==
    [startIndex |-> 0, endIndex |-> 0, textRun |-> [content |-> content, bold |-> bold]]

MdParagraph(namedStyleType, bullet, elements) ==
    [kind |-> "paragraph", namedStyleType |-> namedStyleType, bullet |-> bullet,
     elements |-> elements, tableRows |-> <<>>]

MdTable(tableRows) ==
    [kind |-> "table", namedStyleType |-> NoNamedStyle, bullet |-> FALSE,
     elements |-> <<>>, tableRows |-> tableRows]

MdSectionBreak ==
    [kind |-> "sectionBreak", namedStyleType |-> NoNamedStyle, bullet |-> FALSE,
     elements |-> <<>>, tableRows |-> <<>>]

\* A row as the service returns it, and a row without a cell list.
Row(tableCells) == [hasCells |-> TRUE, tableCells |-> tableCells]

RowWithoutCells == [hasCells |-> FALSE, tableCells |-> <<>>]

Cell(text) ==
    [content |-> IF text = <<>> THEN <<>>
                 ELSE <<MdParagraph(NoNamedStyle, FALSE, <<Run(text, FALSE)>>)>>]

NamedStyles ==
    {NoNamedStyle, NamedStyle("NORMAL_TEXT", 0), NamedStyle("TITLE", 0),
     NamedStyle("SUBTITLE", 0)}
    \cup {NamedStyle("HEADING_", n) : n \in 1..6}

MdRuns ==
    {Run(c, b) : c \in {<<"a">>, <<"a", "\n">>, <<"\n">>, <<" ">>}, b \in BOOLEAN}

MdParagraphs ==
    {MdParagraph(st, b, es) :
        st \in NamedStyles, b \in BOOLEAN, es \in SeqsUpTo(MdRuns, 0, MaxRuns)}

MdRows ==
    {RowWithoutCells}
    \cup {Row(cs) : cs \in SeqsUpTo({Cell(<<>>), Cell(<<"a", "\n">>)}, 0, MaxCols)}

MdTables == {MdTable(rows) : rows \in SeqsUpTo(MdRows, 0, MaxRows)}

MdElements ==
    {MdSectionBreak,
     MdParagraph(NoNamedStyle, FALSE, <<Run(<<"a", "\n">>, FALSE)>>),
     MdParagraph(NamedStyle("HEADING_", 2), FALSE, <<Run(<<"a", "\n">>, FALSE)>>),
     MdParagraph(NoNamedStyle, FALSE, <<Run(<<"\n">>, FALSE)>>),
     MdTable(<<Row(<<Cell(<<"a", "\n">>)>>)>>)}

ProjectionProbe(fn, element, body, content, format, hasMaxLength, maxLength) ==
    [fn |-> fn, element |-> element, body |-> body, content |-> content, format |-> format,
     hasMaxLength |-> hasMaxLength, maxLength |-> maxLength,
     done |-> FALSE, out |-> <<>>, limited |-> ApplyMaxLength("json", <<>>, FALSE, 0)]

MdParagraphProbes ==
    {ProjectionProbe("convertParagraphToMarkdown", e, <<>>, <<>>, "markdown", FALSE, 0) :
        e \in MdParagraphs}

MdTableProbes ==
    {ProjectionProbe("convertTableToMarkdown", e, <<>>, <<>>, "markdown", FALSE, 0) :
        e \in MdTables}

MdDocProbes ==
    {ProjectionProbe("convertDocsJsonToMarkdown", MdSectionBreak, c, <<>>, "markdown", FALSE, 0) :
        c \in SeqsUpTo(MdElements, 0, MaxDocElems)}

\* body: the content elements of a body; content: the rendered content of
\* the format.
MaxLengthProbes ==
    {ProjectionProbe("maxLength", MdSectionBreak, <<>>, c, f, h, IF h THEN n ELSE 0) :
        c \in SeqsUpTo({"a", "\n"}, 0, MaxContentLen), f \in {"text", "markdown", "json"},
        h \in BOOLEAN, n \in 0..(MaxContentLen + 1)}

ApplyConvertParagraph ==
    /\ probe.fn = "convertParagraphToMarkdown"
    /\ ~probe.done
    /\ probe' = [probe EXCEPT !.done = TRUE, !.out = convertParagraphToMarkdown(probe.element)]
    /\ UNCHANGED mainVars

ApplyConvertTable ==
    /\ probe.fn = "convertTableToMarkdown"
    /\ ~probe.done
    /\ probe' = [probe EXCEPT !.done = TRUE, !.out = convertTableToMarkdown(probe.element)]
    /\ UNCHANGED mainVars

ApplyConvertDocsJson ==
    /\ probe.fn = "convertDocsJsonToMarkdown"
    /\ ~probe.done
    /\ probe' = [probe EXCEPT !.done = TRUE, !.out = convertDocsJsonToMarkdown(probe.body)]
    /\ UNCHANGED mainVars

ApplyLimit ==
    /\ probe.fn = "maxLength"
    /\ ~probe.done
    /\ probe' = [probe EXCEPT
                   !.done = TRUE,
                   !.limited = ApplyMaxLength(probe.format, probe.content,
                                              probe.hasMaxLength, probe.maxLength)]
    /\ UNCHANGED mainVars

ProjectionInit ==
    /\ probe \in MdParagraphProbes \cup MdTableProbes \cup MdDocProbes \cup MaxLengthProbes
    /\ NoInvocations

ProjectionNext ==
    \/ ApplyConvertParagraph
    \/ ApplyConvertTable
    \/ ApplyConvertDocsJson
    \/ ApplyLimit

SpecProjection == ProjectionInit /\ [][ProjectionNext]_vars

Converted(fn) == probe.fn = fn /\ probe.done

\* C21: for every maxLength supplied and every format, content longer than
\* maxLength comes back as exactly its first maxLength characters with both
\* the truncated length and the total length reported; the content returned
\* is never longer than maxLength, and content that is not longer than
\* maxLength comes back whole.
C21_Truncation ==
    (Converted("maxLength") /\ probe.hasMaxLength /\ ~IsBlank(probe.content)) =>
       /\ Len(probe.content) > probe.maxLength =>
             /\ probe.limited.content = SubSeq(probe.content, 1, probe.maxLength)
             /\ probe.limited.reportedLimit = probe.maxLength
             /\ probe.limited.reportedTotal = Len(probe.content)
       /\ Len(probe.limited.content) <= probe.maxLength
       /\ Len(probe.content) <= probe.maxLength => probe.limited.content = probe.content

\* The lines of a text: the stretches between its newlines.
RECURSIVE SplitLines(_, _)
SplitLines(text, line) ==
    IF text = <<>> THEN <<line>>
    ELSE IF Head(text) = "\n" THEN <<line>> \o SplitLines(Tail(text), <<>>)
    ELSE SplitLines(Tail(text), Append(line, Head(text)))

Lines(text) == SplitLines(text, <<>>)

\* The rows of the probe's table that have a cell list, in order.
RenderedRows == SelectSeq(probe.element.tableRows, LAMBDA row : row.hasCells)

SeparatorLine(n) ==
    [k \in 1..(1 + 6 * n) |->
        IF k = 1 \/ k % 6 = 1 THEN "|"
        ELSE IF k % 6 \in {2, 0} THEN " " ELSE "-"]

HasDash(line) == \E k \in 1..Len(line) : line[k] = "-"

\* The cells a row line closes with a bar.
CellsOnLine(line) == Cardinality({k \in 2..Len(line) : line[k] = "|"})

\* C22: the Markdown of a table with at least one row holds exactly one
\* header-separator row, with one ' --- |' per cell of the table's first
\* row, on the line right after the rendering of the first row, whatever the
\* rows hold: empty cells, or no cell list at all.
C22_SeparatorAfterFirstRow ==
    (Converted("convertTableToMarkdown") /\ probe.element.tableRows # <<>>) =>
       \A lines \in {Lines(probe.out)} :
          /\ Len(lines) = 1 + Len(RenderedRows) + 1 + 2
          /\ lines[1] = <<>>
          /\ lines[IF probe.element.tableRows[1].hasCells THEN 3 ELSE 2]
                = SeparatorLine(Len(probe.element.tableRows[1].tableCells))

\* C22 (amended): the Markdown of a table in which some row has a cell list
\* holds, besides one line per such row, exactly one header-separator row;
\* it comes right after the first row that has a cell list and has one
\* ' --- |' per cell of that row.  Rows without a cell list render nothing,
\* and a table in which no row has a cell list has no separator.
C22_SeparatorAfterFirstRenderedRow ==
    (Converted("convertTableToMarkdown") /\ probe.element.tableRows # <<>>) =>
       \A lines \in {Lines(probe.out)} :
          IF RenderedRows = <<>> THEN lines = <<<<>>, <<>>, <<>>>>
          ELSE /\ Len(lines) = 1 + Len(RenderedRows) + 1 + 2
               /\ lines[1] = <<>>
               /\ CellsOnLine(lines[2]) = Len(RenderedRows[1].tableCells)
               /\ lines[3] = SeparatorLine(Len(RenderedRows[1].tableCells))
               /\ \A k \in 2..Len(RenderedRows) :
                     CellsOnLine(lines[k + 2]) = Len(RenderedRows[k].tableCells)
               /\ {k \in 1..Len(lines) : HasDash(lines[k])} \subseteq {3}
               /\ lines[Len(lines) - 1] = <<>>
               /\ lines[Len(lines)] = <<>>

C22_Witness ==
    /\ Converted("convertTableToMarkdown")
    /\ Len(probe.element.tableRows) = 3
    /\ ~probe.element.tableRows[1].hasCells
    /\ probe.element.tableRows[2] = Row(<<Cell(<<>>), Cell(<<"a", "\n">>)>>)
    /\ probe.element.tableRows[3].hasCells
    /\ Lines(probe.out)[3] = SeparatorLine(2)

\* The paragraph of the probe: its heading level and its trimmed text.
ProbeHeadingLevel ==
    IF probe.element.namedStyleType.name = "HEADING_" THEN probe.element.namedStyleType.n
    ELSE IF probe.element.namedStyleType.name = "TITLE" THEN 1
    ELSE IF probe.element.namedStyleType.name = "SUBTITLE" THEN 2
    ELSE 0

ProbeText == Trim(RunsMarkdown(probe.element.elements))

HeadingLine(n, text) == [k \in 1..n |-> "#"] \o <<" ">> \o text

BulletLine(text) == <<"-", " ">> \o text

\* The section breaks of the probe's content, and the horizontal rules of
\* its Markdown.
SectionBreaks == {k \in 1..Len(probe.body) : probe.body[k].kind = "sectionBreak"}

HorizontalRules == {k \in 1..Len(Lines(probe.out)) : Lines(probe.out)[k] = <<"-", "-", "-">>}

RulesMatchSectionBreaks ==
    Converted("convertDocsJsonToMarkdown") =>
       Cardinality(HorizontalRules) = Cardinality(SectionBreaks)

AppendedToBody == probe.fn = "appendToGoogleDoc" /\ probe.done /\ probe.toks # <<>>

\* C24: appendToGoogleDoc inserts at the endIndex of the last element of the
\* body less one; with addNewlineIfNeeded it puts a newline before the text
\* only if what stands before the insertion point does not end in a
\* newline, and without it it never adds one.
C24_NewlineOnlyIfNeeded ==
    AppendedToBody =>
       /\ probe.out[1].index = Len(probe.toks)
       /\ probe.out[1].text \in {<<"x">>, <<"\n", "x">>}
       /\ probe.out[1].text = <<"\n", "x">> =>
             /\ probe.addNewlineIfNeeded
             /\ probe.toks[probe.out[1].index - 1] # "\n"

(***************************************************************************)
(* Properties of applyParagraphStyle's target.                             *)
(***************************************************************************)
Apis(i) == [k \in 1..Len(inv[i].log) |-> inv[i].log[k].api]

\* The request styles the whole of a paragraph of the body that holds offset.
StylesParagraphAt(i, offset) ==
    \E n \in OwnParagraphsAt(inv[i].before.bodies[1], offset) :
       \A el \in {BodyContent(inv[i].before.bodies[1])[n]} :
          /\ inv[i].requests[1].index = el.startIndex
          /\ inv[i].requests[1].endIndex = el.endIndex

\* C27: an applyParagraphStyle invocation that submits a batchUpdate submits
\* one updateParagraphStyle request, as its last remote call and after every
\* earlier call was answered; with a text target it has read the document
\* twice and the request covers the paragraph that holds the start of the
\* matched instance; with an index target it has read once and the request
\* covers the paragraph that holds the index; with a range target it has
\* read nothing and the request covers the given range; in every case the
\* range has end > start and the request sets at least one attribute.
C27_ParagraphTargetResolvedFirst ==
    \A i \in Slots :
       (inv[i].tool = "applyParagraphStyle" /\ SubmittedBatch(i)) =>
          /\ Len(inv[i].requests) = 1
          /\ inv[i].requests[1].op = "updateParagraphStyle"
          /\ inv[i].requests[1].fields # {}
          /\ inv[i].requests[1].endIndex > inv[i].requests[1].index
          /\ \A k \in 1..(Len(inv[i].log) - 1) : inv[i].log[k].code = 200
          /\ inv[i].target = "text" =>
                /\ Apis(i) = <<"documents.get", "documents.get", "documents.batchUpdate">>
                /\ TextBefore(i).found
                /\ StylesParagraphAt(i, TextBefore(i).startIndex)
          /\ inv[i].target = "index" =>
                /\ Apis(i) = <<"documents.get", "documents.batchUpdate">>
                /\ StylesParagraphAt(i, inv[i].index)
          /\ inv[i].target = "range" =>
                /\ Apis(i) = <<"documents.batchUpdate">>
                /\ inv[i].requests[1].index = inv[i].index
                /\ inv[i].requests[1].endIndex = inv[i].endIndex

\* A paragraph was styled through a match that is shorter than it.
C27_Witness ==
    \E i \in Slots :
       /\ inv[i].tool = "applyParagraphStyle"
       /\ inv[i].target = "text"
       /\ Done(i)
       /\ inv[i].kind = "styled"
       /\ SubmittedBatch(i)
       /\ TextBefore(i).found
       /\ inv[i].requests[1].index = TextBefore(i).startIndex
       /\ inv[i].requests[1].endIndex > TextBefore(i).endIndex


(***************************************************************************)
(* The specification of concurrent invocations: two invocations at a time   *)
(* on the same document, a styling of found text next to an insertion or a  *)
(* deletion, their remote calls interleaved in any order.                   *)
(***************************************************************************)
ConcurrentCalls ==
    {c \in TextStyleCalls \cup FormatCalls : c.target = "text" /\ c.style = Bold}
    \cup {c \in InsertCalls \cup DeleteCalls : c.tabId = NoTabId}

ConcurrentStep(i) ==
    \/ InvokeCall(i, ConcurrentCalls)
    \/ ApplyTextStyleFind(i)
    \/ ApplyTextStyleSubmit(i)
    \/ FormatMatchingTextFind(i)
    \/ FormatMatchingTextSubmit(i)
    \/ InsertTextHelper(i)
    \/ InsertTextSubmit(i)
    \/ DeleteRangeCheck(i)
    \/ DeleteRangeSubmit(i)

ConcurrentNext == \E i \in Slots : ConcurrentStep(i)

SpecConcurrent == Init /\ [][ConcurrentNext]_vars

StyleByText(i) ==
    inv[i].tool \in {"applyTextStyle", "formatMatchingText"} /\ inv[i].target = "text"

\* The step resolves the range of invocation i from the document as it is
\* read and builds the one request on that range.
ResolvesFromSnapshot(i) ==
    /\ inv'[i].range = findTextRange(FlatOf(remote.bodies[1]), inv[i].text, inv[i].instance)
    /\ Len(inv'[i].requests) = 1
    /\ inv'[i].requests[1].op = "updateTextStyle"
    /\ inv'[i].requests[1].index = inv'[i].range.startIndex
    /\ inv'[i].requests[1].endIndex = inv'[i].range.endIndex
    /\ inv'[i].log = <<Call("documents.get", 200, FALSE)>>

\* The step submits the request invocation i built, as built, whatever the
\* document has become: the service refuses it only for its code or when the
\* range no longer lies in the body, never for the revision.
SubmitsAsResolved(i) ==
    /\ inv'[i].requests = inv[i].requests
    /\ inv'[i].range = inv[i].range
    /\ Len(inv'[i].log) = 2
    /\ inv'[i].log[2].api = "documents.batchUpdate"
    /\ inv'[i].log[2].code = 200 =>
          /\ inv'[i].outcome = "ok"
          /\ remote' = BatchUpdate(remote, inv[i].requests).remote
    /\ inv'[i].log[2].code = 400 => ~BatchUpdate(remote, inv[i].requests).ok

\* C25: with two invocations in progress on the same document, applyTextStyle
\* on found text and formatMatchingText resolve the range at their one read,
\* keep it while the other invocation changes the document, and submit it
\* unchanged, with no second read and no check of the revision.
C25_StaleRangeSubmitted ==
    [][\A i \in Slots : StyleByText(i) =>
          /\ (inv[i].pc = "begin" /\ inv'[i].pc = "submit") => ResolvesFromSnapshot(i)
          /\ (inv[i].pc = "submit" /\ inv'[i].pc = "submit") => inv'[i] = inv[i]
          /\ (inv[i].pc = "submit" /\ inv'[i].pc = "done") => SubmitsAsResolved(i)]_vars

\* The text the styled range of invocation i covers in the document, when
\* all of it is bold there.
StyledText(i) ==
    IF /\ inv[i].range.endIndex - 1 <= BodyLen(remote.bodies[1])
       /\ \A k \in inv[i].range.startIndex..(inv[i].range.endIndex - 1) :
             remote.bodies[1].sty[k] = 1
    THEN SubSeq(remote.bodies[1].toks, inv[i].range.startIndex, inv[i].range.endIndex - 1)
    ELSE <<>>

\* An insertion made between the read and the batchUpdate of a styling: the
\* style sits on text that is not the query.
C25_Witness ==
    \E i, j \in Slots :
       /\ StyleByText(i) /\ Done(i) /\ inv[i].kind = "styled"
       /\ inv[j].tool = "insertText" /\ Done(j) /\ inv[j].outcome = "ok"
       /\ inv[i].before.revision = 0
       /\ inv[j].before.revision = 0
       /\ remote.revision = 2
       /\ StyledText(i) # <<>>
       /\ StyledText(i) # inv[i].text

(***************************************************************************)
(* The server process: the module-level authClient and API client handles,  *)
(* initializeGoogleClient, startServer, and the tool handlers that obtain a *)
(* client or dereference authClient.  null is 0, a client object is 1.      *)
(***************************************************************************)
Handles ==
    {"googleDocs", "googleDrive", "googleSheets", "googleSlides", "googleForms", "googleScript"}

\* The tools by what they start with: getDocsClient() ... getScriptClient(),
\* or google.drive({auth: authClient!}) in the comment tools.
HandlerKinds == Handles \cup {"comment"}

IdleHandler == [tool |-> "none", pc |-> "idle", auth |-> 0, client |-> 0]

\* The process before startServer: every module-level variable is null.
ServerBoot ==
    [fn |-> "server", pc |-> "boot", authClient |-> 0, handles |-> [h \in Handles |-> 0],
     authorizeCalls |-> 0, assignments |-> 0, calls |-> 0,
     handlers |-> [s \in Slots |-> IdleHandler]]

AllHandlesSet(p) == \A h \in Handles : p.handles[h] # 0

\* An initialization that authorizes on every call.
initializeGoogleClientUncached(p) ==
    [p EXCEPT !.authClient = 1, !.handles = [h \in Handles |-> 1],
              !.authorizeCalls = @ + 1, !.assignments = @ + 1]

\* initializeGoogleClient once authorize() has resolved, as one step: the
\* cached handles when all are set; else authorize when authClient is null
\* and the handles from it; else the missing handles from authClient.
initializeGoogleClient(p) ==
    IF AllHandlesSet(p) THEN p
    ELSE IF p.authClient = 0
    THEN [p EXCEPT !.authClient = 1, !.handles = [h \in Handles |-> 1],
                   !.authorizeCalls = @ + 1, !.assignments = @ + 1]
    ELSE [p EXCEPT !.handles = [h \in Handles |-> 1], !.assignments = @ + 1]

\* startServer: await initializeGoogleClient(), which awaits authorize().
StartServer ==
    /\ probe.fn = "server"
    /\ probe.pc = "boot"
    /\ probe' = [probe EXCEPT !.pc = "authorizing"]
    /\ UNCHANGED mainVars

\* authorize() resolves: the handles are assigned and server.start follows.
AuthorizeResolves ==
    /\ probe.fn = "server"
    /\ probe.pc = "authorizing"
    /\ probe' = [initializeGoogleClient(probe) EXCEPT !.pc = "serving"]
    /\ UNCHANGED mainVars

\* authorize() rejects: process.exit(1).
AuthorizeRejects ==
    /\ probe.fn = "server"
    /\ probe.pc = "authorizing"
    /\ probe' = [probe EXCEPT !.pc = "exited", !.authorizeCalls = @ + 1]
    /\ UNCHANGED mainVars

\* A tool is called on the started server: a comment tool dereferences
\* authClient at once, the others first await their client.
HandlerStarts(s) ==
    /\ probe.fn = "server"
    /\ probe.pc = "serving"
    /\ probe.handlers[s].pc = "idle"
    /\ probe.calls < MaxCalls
    /\ \E tool \in HandlerKinds :
          probe' = [probe EXCEPT
                      !.calls = @ + 1,
                      !.handlers[s] =
                          IF tool = "comment"
                          THEN [tool |-> tool, pc |-> "remote", auth |-> probe.authClient,
                                client |-> probe.authClient]
                          ELSE [tool |-> tool, pc |-> "client", auth |-> 0, client |-> 0]]
    /\ UNCHANGED mainVars

\* const { googleDocs: docs } = await initializeGoogleClient();
HandlerGetsClient(s) ==
    /\ probe.fn = "server"
    /\ probe.handlers[s].pc = "client"
    /\ \E p \in {initializeGoogleClient(probe)} :
          probe' = [p EXCEPT !.handlers[s].pc = "remote",
                             !.handlers[s].auth = p.authClient,
                             !.handlers[s].client = p.handles[probe.handlers[s].tool]]
    /\ UNCHANGED mainVars

\* The handler's remote call returns and the handler ends.
HandlerEnds(s) ==
    /\ probe.fn = "server"
    /\ probe.handlers[s].pc = "remote"
    /\ probe' = [probe EXCEPT !.handlers[s] = IdleHandler]
    /\ UNCHANGED mainVars

ServerInit ==
    /\ probe = ServerBoot
    /\ NoInvocations

ServerNext ==
    \/ StartServer
    \/ AuthorizeResolves
    \/ AuthorizeRejects
    \/ \E s \in Slots : HandlerStarts(s) \/ HandlerGetsClient(s) \/ HandlerEnds(s)

SpecServer == ServerInit /\ [][ServerNext]_vars

\* C26: a handler runs only on a server whose initialization has completed;
\* from then on authClient and the six handles are non-null and have been
\* assigned once, authorize() has been called once, and what a handler takes
\* from them (the comment tools authClient itself) is non-null.
C26_InitializedOnce ==
    /\ probe.pc \in {"boot", "authorizing"} =>
          /\ \A s \in Slots : probe.handlers[s].pc = "idle"
          /\ probe.authClient = 0
    /\ probe.pc = "serving" =>
          /\ probe.authClient # 0
          /\ AllHandlesSet(probe)
          /\ probe.assignments = 1
          /\ probe.authorizeCalls = 1
          /\ \A s \in Slots : probe.handlers[s].pc = "remote" =>
                probe.handlers[s].auth # 0 /\ probe.handlers[s].client # 0
    /\ probe.pc = "exited" =>
          /\ \A s \in Slots : probe.handlers[s].pc = "idle"
          /\ probe.authorizeCalls = 1

C26_Witness ==
    /\ probe.pc = "serving"
    /\ probe.calls = MaxCalls
    /\ probe.handlers[1].tool = "comment" /\ probe.handlers[1].pc = "remote"
    /\ probe.handlers[2].tool = "googleSheets" /\ probe.handlers[2].pc = "remote"

(***************************************************************************)
(* The comment tools: addComment quotes the text of its range and creates  *)
(* the comment through the Drive service; resolveComment reads the         *)
(* comment, updates it and reads it again.  The state of one invocation is *)
(* held in probe.                                                           *)
(***************************************************************************)
\* String.prototype.substring(start, end): both clamped to 0..length, and
\* swapped when start > end.
Substring(text, start, end) ==
    Let(<<IF start < 0 THEN 0 ELSE IF start > Len(text) THEN Len(text) ELSE start,
          IF end < 0 THEN 0 ELSE IF end > Len(text) THEN Len(text) ELSE end>>,
        LAMBDA c : IF c[1] <= c[2] THEN SubSeq(text, c[1] + 1, c[2])
                   ELSE SubSeq(text, c[2] + 1, c[1]))

\* A quotation made of every run that touches the range, whole.
RunQuoteWholeRun(textElement, startIndex, endIndex) ==
    IF textElement.endIndex > startIndex /\ textElement.startIndex < endIndex
    THEN textElement.textRun.content
    ELSE <<>>

\* The part of one text run that addComment quotes.
RunQuote(textElement, startIndex, endIndex) ==
    IF textElement.endIndex > startIndex /\ textElement.startIndex < endIndex
    THEN Let(textElement.textRun.content, LAMBDA text :
         Let(IF startIndex - textElement.startIndex > 0
             THEN startIndex - textElement.startIndex ELSE 0, LAMBDA startOffset :
         Let(IF Len(text) < endIndex - textElement.startIndex
             THEN Len(text) ELSE endIndex - textElement.startIndex, LAMBDA endOffset :
         Substring(text, startOffset, endOffset))))
    ELSE <<>>

RECURSIVE ElementsQuote(_, _, _)
ElementsQuote(elements, startIndex, endIndex) ==
    IF elements = <<>> THEN <<>>
    ELSE RunQuote(Head(elements), startIndex, endIndex)
         \o ElementsQuote(Tail(elements), startIndex, endIndex)

\* quotedText of addComment: the loop over body.content, paragraphs only.
RECURSIVE QuotedText(_, _, _)
QuotedText(content, startIndex, endIndex) ==
    IF content = <<>> THEN <<>>
    ELSE (IF Head(content).kind = "paragraph"
          THEN ElementsQuote(Head(content).elements, startIndex, endIndex)
          ELSE <<>>)
         \o QuotedText(Tail(content), startIndex, endIndex)

CommentContents == {<<"c">>, <<"d">>}

NoComment == [content |-> <<>>, resolved |-> FALSE]

NoCommentRequest == [content |-> <<>>, resolved |-> FALSE, quoted |-> <<>>, o |-> 0, l |-> 0]

CommentCall(api, code) == [api |-> api, code |-> code]

\* One invocation of a comment tool: its arguments, the document and the
\* comment on the service, its position, the remote calls made, what it has
\* read and sent, and how it ended.
CommentProbe(fn, body, startIndex, endIndex, text, comment) ==
    [fn |-> fn, body |-> body, startIndex |-> startIndex, endIndex |-> endIndex,
     text |-> text, comment |-> comment, pc |-> "begin", log |-> <<>>,
     read |-> <<>>, sent |-> NoCommentRequest, outcome |-> "none", kind |-> "none"]

\* The longest document a comment is added to.
MaxDocLen == 14

\* The schema of addComment: startIndex >= 1, endIndex >= 1, endIndex > startIndex.
AddCommentProbes ==
    UNION {{CommentProbe("addComment", b, r[1], r[2], <<"c">>, NoComment) :
               r \in {r \in (1..(BodyLen(b) + 1)) \X (2..(BodyLen(b) + 2)) : r[2] > r[1]}} :
           b \in {b \in Bodies : BodyLen(b) <= MaxDocLen}}

ResolveCommentProbes ==
    {CommentProbe("resolveComment", MkBody(<<>>, <<>>), 0, 0, <<>>,
                  [content |-> c, resolved |-> r]) :
        c \in CommentContents, r \in BOOLEAN}

CommentFails(kind) ==
    [probe EXCEPT !.pc = "done", !.outcome = "error", !.kind = kind]

CommentLogged(api, code) == Append(probe.log, CommentCall(api, code))

\* addComment: documents.get, then the quotation from the response.
AddCommentRead ==
    /\ probe.fn = "addComment"
    /\ probe.pc = "begin"
    /\ \E code \in Codes :
          probe' = IF code # 200
                   THEN [CommentFails("Failed to add comment") EXCEPT
                            !.log = CommentLogged("documents.get", code)]
                   ELSE [probe EXCEPT
                            !.pc = "create",
                            !.log = CommentLogged("documents.get", code),
                            !.sent = [content |-> probe.text, resolved |-> FALSE,
                                      quoted |-> QuotedText(BodyContent(probe.body),
                                                            probe.startIndex, probe.endIndex),
                                      o |-> probe.startIndex - 1,
                                      l |-> probe.endIndex - probe.startIndex]]
    /\ UNCHANGED mainVars

\* addComment: drive.comments.create with the quotation and the anchor.
AddCommentCreate ==
    /\ probe.fn = "addComment"
    /\ probe.pc = "create"
    /\ \E code \in Codes :
          probe' = IF code # 200
                   THEN [CommentFails("Failed to add comment") EXCEPT
                            !.log = CommentLogged("comments.create", code)]
                   ELSE [probe EXCEPT
                            !.pc = "done", !.outcome = "ok", !.kind = "Comment added",
                            !.log = CommentLogged("comments.create", code),
                            !.comment = [content |-> probe.sent.content, resolved |-> FALSE]]
    /\ UNCHANGED mainVars

\* resolveComment: drive.comments.get for the content.
ResolveCommentGet ==
    /\ probe.fn = "resolveComment"
    /\ probe.pc = "begin"
    /\ \E code \in Codes :
          probe' = IF code # 200
                   THEN [CommentFails("Failed to resolve comment") EXCEPT
                            !.log = CommentLogged("comments.get", code)]
                   ELSE [probe EXCEPT
                            !.pc = "update",
                            !.log = CommentLogged("comments.get", code),
                            !.read = probe.comment.content]
    /\ UNCHANGED mainVars

\* resolveComment, not sending the content along with resolved.
ResolveCommentUpdateResolvedOnly ==
    /\ probe.fn = "resolveComment"
    /\ probe.pc = "update"
    /\ \E code \in Codes, persists \in BOOLEAN :
          probe' = IF code # 200
                   THEN [CommentFails("Failed to resolve comment") EXCEPT
                            !.log = CommentLogged("comments.update", code)]
                   ELSE [probe EXCEPT
                            !.pc = "verify",
                            !.log = CommentLogged("comments.update", code),
                            !.sent = [NoCommentRequest EXCEPT !.resolved = TRUE],
                            !.comment = [content |-> <<>>,
                                         resolved |-> probe.comment.resolved \/ persists]]
    /\ UNCHANGED mainVars

\* resolveComment: drive.comments.update with the content read and
\* resolved: true; the service may or may not keep the resolved status.
ResolveCommentUpdate ==
    /\ probe.fn = "resolveComment"
    /\ probe.pc = "update"
    /\ \E code \in Codes, persists \in BOOLEAN :
          probe' = IF code # 200
                   THEN [CommentFails("Failed to resolve comment") EXCEPT
                            !.log = CommentLogged("comments.update", code)]
                   ELSE [probe EXCEPT
                            !.pc = "verify",
                            !.log = CommentLogged("comments.update", code),
                            !.sent = [NoCommentRequest EXCEPT !.content = probe.read,
                                                              !.resolved = TRUE],
                            !.comment = [content |-> probe.read,
                                         resolved |-> probe.comment.resolved \/ persists]]
    /\ UNCHANGED mainVars

\* resolveComment: the verification read and the message it chooses.
ResolveCommentVerify ==
    /\ probe.fn = "resolveComment"
    /\ probe.pc = "verify"
    /\ \E code \in Codes :
          probe' = IF code # 200
                   THEN [CommentFails("Failed to resolve comment") EXCEPT
                            !.log = CommentLogged("comments.get", code)]
                   ELSE [probe EXCEPT
                            !.pc = "done", !.outcome = "ok",
                            !.log = CommentLogged("comments.get", code),
                            !.kind = IF probe.comment.resolved
                                     THEN "marked as resolved"
                                     ELSE "attempted, may not persist"]
    /\ UNCHANGED mainVars

\* Someone else edits the comment while resolveComment runs.
CommentEdited ==
    /\ probe.fn = "resolveComment"
    /\ probe.pc \in {"update", "verify"}
    /\ \E c \in CommentContents, r \in BOOLEAN :
          /\ [content |-> c, resolved |-> r] # probe.comment
          /\ probe' = [probe EXCEPT !.comment = [content |-> c, resolved |-> r]]
    /\ UNCHANGED mainVars

CommentsInit ==
    /\ probe \in AddCommentProbes \cup ResolveCommentProbes
    /\ NoInvocations

CommentsNext ==
    \/ AddCommentRead
    \/ AddCommentCreate
    \/ ResolveCommentGet
    \/ ResolveCommentUpdate
    \/ ResolveCommentVerify
    \/ CommentEdited

SpecComments == CommentsInit /\ [][CommentsNext]_vars

(***************************************************************************)
(* Properties of the comment tools.                                        *)
(***************************************************************************)
\* Index k of the body holds a character of one of the body's own
\* paragraphs: a character that is not between a table's start and its end.
IsParagraphText(body, k) ==
    /\ k \in 1..BodyLen(body)
    /\ IsChar(body.toks[k])
    /\ ~\E j \in 1..k : body.toks[j] = "<T>" /\ \A m \in j..k : body.toks[m] # "<E>"

\* The text of the body's own paragraphs at the indices k..(endIndex - 1),
\* in document order.
RECURSIVE ParagraphTextFrom(_, _, _)
ParagraphTextFrom(body, k, endIndex) ==
    IF k >= endIndex \/ k > BodyLen(body) THEN <<>>
    ELSE (IF IsParagraphText(body, k) THEN <<body.toks[k]>> ELSE <<>>)
         \o ParagraphTextFrom(body, k + 1, endIndex)

InsideParagraphText(body, startIndex, endIndex) ==
    \A k \in startIndex..(endIndex - 1) : IsParagraphText(body, k)

\* The document was read and the quotation made.
Quoted ==
    /\ probe.fn = "addComment"
    /\ probe.log # <<>>
    /\ probe.log[1].code = 200

\* C28: the text addComment quotes for [startIndex, endIndex) is the text
\* of the body's paragraphs at the indices of the range, in document order;
\* it is no longer than endIndex - startIndex; and for a range that lies
\* inside paragraph text it is the document's text at that range.  The
\* anchor sent is offset startIndex - 1 with length endIndex - startIndex.
C28_QuotedTextIsRangeText ==
    Quoted =>
       /\ probe.sent.quoted = ParagraphTextFrom(probe.body, probe.startIndex, probe.endIndex)
       /\ Len(probe.sent.quoted) <= probe.endIndex - probe.startIndex
       /\ InsideParagraphText(probe.body, probe.startIndex, probe.endIndex) =>
             probe.sent.quoted = SubSeq(probe.body.toks, probe.startIndex, probe.endIndex - 1)

\* A comment was created on a range that starts outside paragraph text and
\* ends inside a paragraph, before the paragraph's end: the quotation is
\* shorter than the range and stops short of the paragraph's end.
C28_Witness ==
    /\ probe.fn = "addComment"
    /\ probe.pc = "done"
    /\ probe.outcome = "ok"
    /\ Len(probe.sent.quoted) >= 2
    /\ Len(probe.sent.quoted) < probe.endIndex - probe.startIndex
    /\ IsParagraphText(probe.body, probe.endIndex - 2)
    /\ IsParagraphText(probe.body, probe.endIndex - 1)
    /\ IsParagraphText(probe.body, probe.endIndex)

CommentApis == [k \in 1..Len(probe.log) |-> probe.log[k].api]

ResolveOrder == <<"comments.get", "comments.update", "comments.get">>

\* C29: resolveComment calls comments.get, comments.update and comments.get
\* in this order; the update carries resolved = true and the content the
\* first read returned; a call that fails is the last call and the
\* invocation ends with an error; when all three are answered the
\* invocation returns a normal result, "marked as resolved" if the
\* verification read shows the comment resolved and "attempted, may not
\* persist" if not.
C29_ResolveReadsUpdatesVerifies ==
    probe.fn = "resolveComment" =>
       /\ Len(probe.log) <= 3
       /\ CommentApis = SubSeq(ResolveOrder, 1, Len(probe.log))
       /\ \A k \in 1..Len(probe.log) :
             probe.log[k].code # 200 =>
                /\ k = Len(probe.log)
                /\ probe.pc = "done"
                /\ probe.outcome = "error"
       /\ (Len(probe.log) >= 2 /\ probe.log[2].code = 200) =>
             /\ probe.sent.resolved
             /\ probe.sent.content = probe.read
       /\ probe.pc = "done" =>
             /\ probe.outcome \in {"ok", "error"}
             /\ probe.outcome = "ok" <=>
                   (Len(probe.log) = 3 /\ \A k \in 1..3 : probe.log[k].code = 200)
             /\ probe.outcome = "ok" =>
                   probe.kind = IF probe.comment.resolved THEN "marked as resolved"
                                ELSE "attempted, may not persist"

\* The update was answered and the verification read shows the comment
\* unresolved: a normal result that says so.
C29_Witness ==
    /\ probe.fn = "resolveComment"
    /\ probe.pc = "done"
    /\ probe.outcome = "ok"
    /\ probe.kind = "attempted, may not persist"
    /\ probe.sent.content = probe.read
    /\ probe.read # <<>>

(***************************************************************************)
(* uninstall (--uninstall): the removal of the token and credentials       *)
(* files.  The state of the run is held in probe: the environment, the     *)
(* files on disk, and the function's locals.                               *)
(***************************************************************************)
Dirs == {"config", "cwd"}

FileNames == {"token.json", "credentials.json"}

PathJoin(dir, name) == [dir |-> dir, name |-> name]

AllFiles == {PathJoin(d, n) : d \in Dirs, n \in FileNames}

\* What the user may type at the prompt.
Answers == {<<"y">>, <<"Y">>, <<"n">>, <<>>, <<"y", "e", "s">>, <<" ", "y">>}

ToLowerCase(text) ==
    [k \in 1..Len(text) |-> IF text[k] = "Y" THEN "y" ELSE text[k]]

\* An answer that starts with y counts as yes.
ConfirmsByFirstLetter(answer) == answer # <<>> /\ ToLowerCase(answer)[1] = "y"

\* answer.toLowerCase() === 'y'
Confirms(answer) == ToLowerCase(answer) = <<"y">>

\* locations: CONFIG_DIR and process.cwd(), which may be the same directory.
LocationDir(k) == IF k = 1 \/ probe.sameDir THEN "config" ELSE "cwd"

Locations == 2

\* fs.unlink(path) succeeds on a file that exists and may be removed.
UnlinkSucceeds(file) == file \in probe.files /\ file \notin probe.locked

\* serviceAccount: process.env.SERVICE_ACCOUNT_PATH is set (non-empty).
UninstallRuns ==
    {[fn |-> "uninstall", serviceAccount |-> sa, isTTY |-> tty, sameDir |-> same,
      files0 |-> fs, files |-> fs, locked |-> lk, pc |-> "begin", loc |-> 0,
      tokensRemoved |-> 0, credentialsToRemove |-> <<>>, next |-> 0,
      prompted |-> FALSE, answer |-> <<>>, unlinked |-> {}, failures |-> {}] :
        sa \in BOOLEAN, tty \in BOOLEAN, same \in BOOLEAN,
        fs \in SUBSET AllFiles, lk \in SUBSET AllFiles}

\* The service account check, before anything is touched.
UninstallBegin ==
    /\ probe.fn = "uninstall"
    /\ probe.pc = "begin"
    /\ probe' = IF probe.serviceAccount
                THEN [probe EXCEPT !.pc = "done"]
                ELSE [probe EXCEPT !.pc = "locations", !.loc = 1]
    /\ UNCHANGED mainVars

\* After the loop over the locations: the prompt, only with credentials
\* found and only on a terminal.
AfterLocations(p) ==
    IF p.loc <= Locations THEN p
    ELSE IF p.credentialsToRemove # <<>> /\ p.isTTY
    THEN [p EXCEPT !.pc = "prompt", !.prompted = TRUE]
    ELSE [p EXCEPT !.pc = "done"]

\* One turn of the loop over the locations: token.json is removed if it is
\* there, credentials.json is noted if it is there.
UninstallLocation ==
    /\ probe.fn = "uninstall"
    /\ probe.pc = "locations"
    /\ \E tokenPath \in {PathJoin(LocationDir(probe.loc), "token.json")} :
       \E credPath \in {PathJoin(LocationDir(probe.loc), "credentials.json")} :
          probe' = AfterLocations(
             [probe EXCEPT
                !.loc = @ + 1,
                !.files = IF UnlinkSucceeds(tokenPath) THEN @ \ {tokenPath} ELSE @,
                !.unlinked = IF UnlinkSucceeds(tokenPath) THEN @ \cup {tokenPath} ELSE @,
                !.tokensRemoved = IF UnlinkSucceeds(tokenPath) THEN @ + 1 ELSE @,
                !.failures = IF tokenPath \in probe.files /\ ~UnlinkSucceeds(tokenPath)
                             THEN @ \cup {tokenPath} ELSE @,
                !.credentialsToRemove = IF credPath \in probe.files
                                        THEN Append(@, credPath) ELSE @])
    /\ UNCHANGED mainVars

\* After the answer and after each credentials file.
AfterCredentials(p) ==
    IF p.next <= Len(p.credentialsToRemove) THEN p ELSE [p EXCEPT !.pc = "done"]

\* The user answers the prompt.
UninstallAnswer ==
    /\ probe.fn = "uninstall"
    /\ probe.pc = "prompt"
    /\ \E answer \in Answers :
          probe' = IF Confirms(answer)
                   THEN [probe EXCEPT !.pc = "credentials", !.answer = answer, !.next = 1]
                   ELSE [probe EXCEPT !.pc = "done", !.answer = answer]
    /\ UNCHANGED mainVars

\* One turn of the loop over credentialsToRemove.
UninstallCredentials ==
    /\ probe.fn = "uninstall"
    /\ probe.pc = "credentials"
    /\ \E credPath \in {probe.credentialsToRemove[probe.next]} :
          probe' = AfterCredentials(
             [probe EXCEPT
                !.next = @ + 1,
                !.files = IF UnlinkSucceeds(credPath) THEN @ \ {credPath} ELSE @,
                !.unlinked = IF UnlinkSucceeds(credPath) THEN @ \cup {credPath} ELSE @,
                !.failures = IF ~UnlinkSucceeds(credPath) THEN @ \cup {credPath} ELSE @])
    /\ UNCHANGED mainVars

UninstallInit ==
    /\ probe \in UninstallRuns
    /\ NoInvocations

UninstallNext ==
    \/ UninstallBegin
    \/ UninstallLocation
    \/ UninstallAnswer
    \/ UninstallCredentials

SpecUninstall == UninstallInit /\ [][UninstallNext]_vars

(***************************************************************************)
(* Properties of uninstall.                                                *)
(***************************************************************************)
\* The files of the two locations.
LocationFiles(name) == {PathJoin(LocationDir(k), name) : k \in 1..Locations}

\* C30: uninstall removes a credentials.json only after it has prompted on
\* a terminal and was answered y or Y; it never removes a file with
\* SERVICE_ACCOUNT_PATH set; it removes nothing but the token.json and
\* credentials.json of its two locations; and when it has finished without
\* SERVICE_ACCOUNT_PATH, every token.json of the two locations that could be
\* removed is gone, whatever the terminal and the answer and whichever
\* other removals failed, and after an answer y or Y so is every
\* credentials.json of the two locations that could be removed.
C30_UninstallRemovals ==
    probe.fn = "uninstall" =>
       /\ probe.files = probe.files0 \ probe.unlinked
       /\ probe.unlinked \subseteq LocationFiles("token.json") \cup LocationFiles("credentials.json")
       /\ (\E f \in probe.unlinked : f.name = "credentials.json") =>
             /\ probe.isTTY
             /\ probe.prompted
             /\ probe.answer \in {<<"y">>, <<"Y">>}
       /\ probe.serviceAccount => (probe.unlinked = {} /\ ~probe.prompted)
       /\ (probe.pc \in {"prompt", "credentials", "done"} /\ ~probe.serviceAccount) =>
             \A f \in LocationFiles("token.json") :
                (f \in probe.files0 /\ f \notin probe.locked) => f \in probe.unlinked
       /\ (probe.pc = "done" /\ probe.answer \in {<<"y">>, <<"Y">>}) =>
             \A f \in LocationFiles("credentials.json") :
                (f \in probe.files0 /\ f \notin probe.locked) => f \in probe.unlinked

\* A run in which the first token and the first credentials file could not
\* be removed and the second of each was removed all the same.
C30_Witness ==
    /\ probe.fn = "uninstall"
    /\ probe.pc = "done"
    /\ probe.answer = <<"Y">>
    /\ probe.failures = {PathJoin("config", "token.json"), PathJoin("config", "credentials.json")}
    /\ probe.unlinked = {PathJoin("cwd", "token.json"), PathJoin("cwd", "credentials.json")}

====
